---- MODULE Spec2Model ----
(***************************************************************************)
(* Model of the colour sampling pipeline of color_font_analyzer.py:        *)
(* WebpageAnalyzer._process_samples, _rank_colors, _infer_tokens and the   *)
(* colour helpers they call.                                               *)
(*                                                                         *)
(* Strings of the program are sequences of one-character strings, so that  *)
(* prefix tests, lengths and digit parsing are computed as the code        *)
(* computes them.  Areas and widths are integers (tenths of a pixel for    *)
(* widths, see the sample filter).  Python's None is the value None.       *)
(***************************************************************************)
EXTENDS Integers, Sequences, FiniteSets, TLC

VARIABLES samples, processed_samples, items, ranked_colors, tokens, pc,
          playwright, browser, backend_calls, outcome, result,
          colors, css_variables, add_log, css, passes, links, link_i, fetched,
          category_call, normalize_call,
          max_pages, urls_to_visit, visited_urls, pages_content, scraped

\* The rendering backend and the value analyze returns.
render_vars == <<playwright, browser, backend_calls, outcome, result>>

\* The static extraction: the extractor's records, the analyzer's custom
\* properties, the calls of _add_color so far, the stylesheet parsed and how
\* often, the page's stylesheet links, the loop position over them, the
\* URLs requested, and the last call of categorize_color.
static_vars == <<colors, css_variables, add_log, css, passes, links, link_i, fetched,
                 category_call>>

\* WebsiteScraper: the page limit, the queue of crawl, the URLs visited, the
\* pages kept, and the URLs passed to scrape_page with what fetching them did.
scraper_vars == <<max_pages, urls_to_visit, visited_urls, pages_content, scraped>>

vars == <<samples, processed_samples, items, ranked_colors, tokens, pc, render_vars,
          static_vars, normalize_call, scraper_vars>>

(* ---------------------------------------------------------------------- *)
(* Bounds                                                                 *)
(* ---------------------------------------------------------------------- *)
MaxItems == 3
MaxExampleItems == 6
MaxSamples == 1

(* ---------------------------------------------------------------------- *)
(* Values                                                                 *)
(* ---------------------------------------------------------------------- *)
None == <<"None">>

\* Python truthiness of an Optional[str]: None and '' are falsy.
Truthy(x) == x # None /\ x # <<>>

Hex6(a, b, c, d, e, f) == <<"#", a, b, c, d, e, f>>

Dark1 == Hex6("1", "1", "1", "1", "1", "1")
Dark2 == Hex6("2", "2", "2", "2", "2", "2")
Grey187 == Hex6("b", "b", "b", "b", "b", "b")
Grey188 == Hex6("b", "c", "b", "c", "b", "c")
White == Hex6("f", "f", "f", "f", "f", "f")
Black == Hex6("0", "0", "0", "0", "0", "0")
C111 == <<"#", "1", "1", "1">>
C222 == <<"#", "2", "2", "2">>

Roles == {"text", "background", "border"}
SampleTypes == {"body", "main", "container", "button", "link", "heading", "paragraph"}

(* ---------------------------------------------------------------------- *)
(* ColorNormalizer.calculate_luminance                                    *)
(* ---------------------------------------------------------------------- *)
HexDigits == <<"0", "1", "2", "3", "4", "5", "6", "7", "8", "9", "a", "b", "c", "d", "e", "f">>

IsHexDigit(ch) == \E i \in 1..Len(HexDigits) : HexDigits[i] = ch

HexVal(ch) == (CHOOSE i \in 1..Len(HexDigits) : HexDigits[i] = ch) - 1

\* str.lstrip('#'): drop every leading '#'.
RECURSIVE LStripHash(_)
LStripHash(s) ==
    IF s # <<>> /\ Head(s) = "#" THEN LStripHash(Tail(s)) ELSE s

\* adjust(c / 255) of calculate_luminance for c in 0..255, in units of 1/10000
\* (rounded to the nearest unit).
AdjustTable ==
  <<
     0, 3, 6, 9, 12, 15, 18, 21, 24, 27, 30, 33, 37, 40, 44, 48,
     52, 56, 60, 65, 70, 75, 80, 86, 91, 97, 103, 110, 116, 123, 130, 137,
     144, 152, 160, 168, 176, 185, 194, 203, 212, 222, 232, 242, 252, 262, 273, 284,
     296, 307, 319, 331, 343, 356, 369, 382, 395, 409, 423, 437, 452, 467, 482, 497,
     513, 529, 545, 561, 578, 595, 612, 630, 648, 666, 685, 704, 723, 742, 762, 782,
     802, 823, 844, 865, 887, 908, 931, 953, 976, 999, 1022, 1046, 1070, 1095, 1119, 1144,
     1170, 1195, 1221, 1248, 1274, 1301, 1329, 1356, 1384, 1413, 1441, 1470, 1500, 1529, 1559, 1590,
     1620, 1651, 1683, 1714, 1746, 1779, 1812, 1845, 1878, 1912, 1946, 1981, 2016, 2051, 2086, 2122,
     2159, 2195, 2232, 2270, 2307, 2346, 2384, 2423, 2462, 2502, 2542, 2582, 2623, 2664, 2705, 2747,
     2789, 2831, 2874, 2918, 2961, 3005, 3050, 3095, 3140, 3185, 3231, 3278, 3325, 3372, 3419, 3467,
     3515, 3564, 3613, 3663, 3712, 3763, 3813, 3864, 3916, 3968, 4020, 4072, 4125, 4179, 4233, 4287,
     4342, 4397, 4452, 4508, 4564, 4621, 4678, 4735, 4793, 4851, 4910, 4969, 5029, 5089, 5149, 5210,
     5271, 5333, 5395, 5457, 5520, 5583, 5647, 5711, 5776, 5841, 5906, 5972, 6038, 6105, 6172, 6240,
     6308, 6376, 6445, 6514, 6584, 6654, 6724, 6795, 6867, 6939, 7011, 7084, 7157, 7231, 7305, 7379,
     7454, 7529, 7605, 7682, 7758, 7835, 7913, 7991, 8070, 8148, 8228, 8308, 8388, 8469, 8550, 8632,
     8714, 8796, 8879, 8963, 9047, 9131, 9216, 9301, 9387, 9473, 9560, 9647, 9734, 9823, 9911, 10000
  >>

Adjust(c) == AdjustTable[c + 1]

LuminanceScale == 100000000

\* The luminance in units of 1/LuminanceScale; "error" stands for the
\* ValueError int(..., 16) raises on a non-hex digit.
calculate_luminance(hex_color) ==
    LET h == LStripHash(hex_color) IN
    IF Len(h) # 6 THEN 0
    ELSE IF \E i \in 1..6 : ~IsHexDigit(h[i]) THEN -1
    ELSE LET r == 16 * HexVal(h[1]) + HexVal(h[2])
             g == 16 * HexVal(h[3]) + HexVal(h[4])
             b == 16 * HexVal(h[5]) + HexVal(h[6])
         IN  2126 * Adjust(r) + 7152 * Adjust(g) + 722 * Adjust(b)

_is_dark_colorMut(hex_color) ==
    IF ~Truthy(hex_color) THEN FALSE
    ELSE LET l == calculate_luminance(hex_color) IN
         IF l < 0 THEN FALSE ELSE 2 * l > LuminanceScale

_is_dark_color(hex_color) ==
    IF ~Truthy(hex_color) THEN FALSE
    ELSE LET l == calculate_luminance(hex_color) IN
         IF l < 0 THEN FALSE ELSE 2 * l < LuminanceScale

(* ---------------------------------------------------------------------- *)
(* String helpers: str.strip, str.lower, prefix tests, regular expressions *)
(* ---------------------------------------------------------------------- *)
IsSpace(ch) == ch \in {" ", "\t", "\n"}

IsDigit(ch) == ch \in {"0", "1", "2", "3", "4", "5", "6", "7", "8", "9"}

DigitVal(ch) == HexVal(ch)

UpperLetters == <<"A", "B", "C", "D", "E", "F", "G", "H", "I", "J", "K", "L", "M", "N", "O", "P", "Q", "R", "S", "T", "U", "V", "W", "X", "Y", "Z">>

LowerLetters == <<"a", "b", "c", "d", "e", "f", "g", "h", "i", "j", "k", "l", "m", "n", "o", "p", "q", "r", "s", "t", "u", "v", "w", "x", "y", "z">>

LowerChar(ch) ==
    IF \E i \in 1..Len(UpperLetters) : UpperLetters[i] = ch
    THEN LowerLetters[CHOOSE i \in 1..Len(UpperLetters) : UpperLetters[i] = ch]
    ELSE ch

Lower(s) == [i \in 1..Len(s) |-> LowerChar(s[i])]

RECURSIVE LStrip(_)
LStrip(s) == IF s # <<>> /\ IsSpace(Head(s)) THEN LStrip(Tail(s)) ELSE s

RECURSIVE RStrip(_)
RStrip(s) ==
    IF s # <<>> /\ IsSpace(s[Len(s)]) THEN RStrip(SubSeq(s, 1, Len(s) - 1)) ELSE s

Strip(s) == RStrip(LStrip(s))

StartsWith(s, prefix) ==
    Len(s) >= Len(prefix) /\ SubSeq(s, 1, Len(prefix)) = prefix

\* needle in s
Contains(s, needle) ==
    \E i \in 1..(Len(s) - Len(needle) + 1) : SubSeq(s, i, i + Len(needle) - 1) = needle

\* Character classes of the regular expressions: \s, \d, [0-9.], [^,].
InClass(class, ch) ==
    CASE class = "space"    -> IsSpace(ch)
      [] class = "digit"    -> IsDigit(ch)
      [] class = "digitdot" -> IsDigit(ch) \/ ch = "."
      [] class = "notcomma" -> ch # ","

\* The first position at or after i whose character is outside the class
\* (Len(s) + 1 when there is none): the end of a greedy run of the class.
RECURSIVE SpanEnd(_, _, _)
SpanEnd(s, i, class) ==
    IF i <= Len(s) /\ InClass(class, s[i]) THEN SpanEnd(s, i + 1, class) ELSE i

CharAt(s, i) == IF i >= 1 /\ i <= Len(s) THEN s[i] ELSE ""

\* A value that is used several times is bound once, as the element x of a
\* singleton set: CHOOSE r \in {F(x) : x \in {v}} : TRUE is F(v).

\* Elements of a regular expression: one character of a set, an optional
\* character of a set, and a greedy run of a character class of at least
\* min characters (captured as a group when cap holds).  The expressions of
\* the program are deterministic: no element can match what the element
\* after it needs, so matching left to right without backtracking is exact.
Lit(chars) == [kind |-> "lit", chars |-> chars]

Opt(chars) == [kind |-> "opt", chars |-> chars]

Run(class, min, cap) == [kind |-> "run", class |-> class, min |-> min, cap |-> cap]

\* A run that ends before position e, matched at st.pos.
RunStep(s, el, st, e) ==
    [pos  |-> e,
     ok   |-> e - st.pos >= el.min,
     caps |-> IF el.cap THEN Append(st.caps, SubSeq(s, st.pos, e - 1)) ELSE st.caps]

\* One element matched at st.pos.
ScanStep(s, el, st) ==
    IF ~st.ok THEN st
    ELSE IF el.kind = "lit"
         THEN [pos |-> st.pos + 1, ok |-> CharAt(s, st.pos) \in el.chars, caps |-> st.caps]
    ELSE IF el.kind = "opt"
         THEN (IF CharAt(s, st.pos) \in el.chars
               THEN [pos |-> st.pos + 1, ok |-> TRUE, caps |-> st.caps]
               ELSE st)
    ELSE CHOOSE r \in {RunStep(s, el, st, e) : e \in {SpanEnd(s, st.pos, el.class)}} : TRUE

RECURSIVE Scan(_, _, _, _)
Scan(s, pattern, k, st) ==
    IF k > Len(pattern) THEN st
    ELSE CHOOSE r \in {Scan(s, pattern, k + 1, st2) :
                         st2 \in {ScanStep(s, pattern[k], st)}} : TRUE

\* re.match(pattern, s): anchored at the start of s only.
ReMatch(pattern, s) == Scan(s, pattern, 1, [pos |-> 1, ok |-> TRUE, caps |-> <<>>])

\* int(digits) for a non-empty run of decimal digits.
RECURSIVE ParseInt(_)
ParseInt(ds) ==
    IF ds = <<>> THEN 0
    ELSE 10 * ParseInt(SubSeq(ds, 1, Len(ds) - 1)) + DigitVal(ds[Len(ds)])

\* '{:x}'.format(n) for n >= 0.
RECURSIVE HexOf(_)
HexOf(n) ==
    IF n < 16 THEN <<HexDigits[n + 1]>>
    ELSE HexOf(n \div 16) \o <<HexDigits[(n % 16) + 1]>>

\* '{:02x}'.format(n): at least two digits, a minus sign first when n < 0.
Format02x(n) ==
    IF n < 0 THEN <<"-">> \o HexOf(0 - n)
    ELSE IF n < 16 THEN <<"0">> \o HexOf(n)
    ELSE HexOf(n)

(* ---------------------------------------------------------------------- *)
(* ColorNormalizer.normalize_color                                        *)
(* ---------------------------------------------------------------------- *)
\* webcolors.name_to_hex: an excerpt of the CSS3 colour name table of the
\* webcolors library (name, hex).
NamedColors ==
  <<
     <<<<"r", "e", "d">>, <<"#", "f", "f", "0", "0", "0", "0">>>>,
     <<<<"g", "r", "e", "e", "n">>, <<"#", "0", "0", "8", "0", "0", "0">>>>,
     <<<<"b", "l", "u", "e">>, <<"#", "0", "0", "0", "0", "f", "f">>>>,
     <<<<"w", "h", "i", "t", "e">>, <<"#", "f", "f", "f", "f", "f", "f">>>>,
     <<<<"b", "l", "a", "c", "k">>, <<"#", "0", "0", "0", "0", "0", "0">>>>,
     <<<<"g", "r", "a", "y">>, <<"#", "8", "0", "8", "0", "8", "0">>>>,
     <<<<"o", "r", "a", "n", "g", "e">>, <<"#", "f", "f", "a", "5", "0", "0">>>>
  >>

IsNamedColor(s) == \E i \in 1..Len(NamedColors) : NamedColors[i][1] = s

name_to_hex(s) == NamedColors[CHOOSE i \in 1..Len(NamedColors) : NamedColors[i][1] = s][2]

\* Expand shorthand hex: '#' + ''.join([c*2 for c in color_str[1:]]).
ExpandShorthand(s) == <<"#", s[2], s[2], s[3], s[3], s[4], s[4]>>

\* r'rgba?\s*\(\s*(\d+)\s*,\s*(\d+)\s*,\s*(\d+)'
RgbPattern ==
    <<Lit({"r"}), Lit({"g"}), Lit({"b"}), Opt({"a"}), Run("space", 0, FALSE), Lit({"("}),
      Run("space", 0, FALSE), Run("digit", 1, TRUE), Run("space", 0, FALSE), Lit({","}),
      Run("space", 0, FALSE), Run("digit", 1, TRUE), Run("space", 0, FALSE), Lit({","}),
      Run("space", 0, FALSE), Run("digit", 1, TRUE)>>

\* r'hsla?\s*\(\s*(\d+)\s*,\s*(\d+)%\s*,\s*(\d+)%'
HslPattern ==
    <<Lit({"h"}), Lit({"s"}), Lit({"l"}), Opt({"a"}), Run("space", 0, FALSE), Lit({"("}),
      Run("space", 0, FALSE), Run("digit", 1, TRUE), Run("space", 0, FALSE), Lit({","}),
      Run("space", 0, FALSE), Run("digit", 1, TRUE), Lit({"%"}), Run("space", 0, FALSE),
      Lit({","}), Run("space", 0, FALSE), Run("digit", 1, TRUE), Lit({"%"})>>

\* map(int, match.groups()): the three integers, or <<>> without a match.
IntGroupsOf(m) ==
    IF m.ok THEN <<ParseInt(m.caps[1]), ParseInt(m.caps[2]), ParseInt(m.caps[3])>>
    ELSE <<>>

IntGroups(pattern, s) ==
    CHOOSE r \in {IntGroupsOf(m) : m \in {ReMatch(pattern, s)}} : TRUE

RgbMatch(s) == IntGroups(RgbPattern, s)

HslMatch(s) == IntGroups(HslPattern, s)

Abs(n) == IF n < 0 THEN 0 - n ELSE n

\* int(a / b) for b > 0: truncation toward zero.
TruncDiv(a, b) == IF a >= 0 THEN a \div b ELSE 0 - ((0 - a) \div b)

\* The HSL to RGB conversion, in exact arithmetic: with c = cc / 10000,
\* x = cc * xf / 600000 and m = (200 * l - cc) / 20000, each channel is
\* int((v + m) * 255) for v in {c, x, 0}.
HslToRgb(h, sat, l) ==
    LET cc == (100 - Abs(2 * l - 100)) * sat
        xf == 60 - Abs((h % 120) - 60)
        cv == 60 * cc
        xv == cc * xf
        mv == 30 * (200 * l - cc)
        ch(v) == TruncDiv((v + mv) * 255, 600000)
    IN  IF h < 60 THEN <<ch(cv), ch(xv), ch(0)>>
        ELSE IF h < 120 THEN <<ch(xv), ch(cv), ch(0)>>
        ELSE IF h < 180 THEN <<ch(0), ch(cv), ch(xv)>>
        ELSE IF h < 240 THEN <<ch(0), ch(xv), ch(cv)>>
        ELSE IF h < 300 THEN <<ch(xv), ch(0), ch(cv)>>
        ELSE <<ch(cv), ch(0), ch(xv)>>

\* '#{:02x}{:02x}{:02x}'.format(r, g, b)
FormatHex(rgb) == <<"#">> \o Format02x(rgb[1]) \o Format02x(rgb[2]) \o Format02x(rgb[3])

\* The HSL branch, given the groups of the match (<<>> without one).
HslBranch(hsl_match) ==
    IF hsl_match # <<>>
    THEN FormatHex(HslToRgb(hsl_match[1], hsl_match[2], hsl_match[3]))
    ELSE None

\* The RGB branch, given the groups of the match (<<>> without one).
RgbBranch(s, rgb_match) ==
    IF rgb_match # <<>> THEN FormatHex(rgb_match)
    ELSE CHOOSE r \in {HslBranch(hsl_match) : hsl_match \in {HslMatch(s)}} : TRUE

\* The branches after strip().lower().
NormalizeLowered(s) ==
    IF StartsWith(s, <<"#">>)
    THEN (IF Len(s) = 4 THEN ExpandShorthand(s) ELSE s)
    ELSE IF IsNamedColor(s) THEN name_to_hex(s)
    ELSE CHOOSE r \in {RgbBranch(s, rgb_match) : rgb_match \in {RgbMatch(s)}} : TRUE

normalize_color(color_str) ==
    IF ~Truthy(color_str) THEN None
    ELSE CHOOSE r \in {NormalizeLowered(s) : s \in {Lower(Strip(color_str))}} : TRUE

(* ---------------------------------------------------------------------- *)
(* WebpageAnalyzer._normalize_computed_color, _is_fully_transparent       *)
(* ---------------------------------------------------------------------- *)
\* float(g) <= 0 for a run g of digits and dots; float raises ValueError
\* (caught, giving False) unless g has at most one dot and a digit.
AlphaNotPositive(g) ==
    /\ Cardinality({i \in 1..Len(g) : g[i] = "."}) <= 1
    /\ \E i \in 1..Len(g) : IsDigit(g[i])
    /\ \A i \in 1..Len(g) : IsDigit(g[i]) => g[i] = "0"

\* r'rgba\s*\([^,]+,[^,]+,[^,]+,\s*([0-9.]+)\s*\)'
RgbaAlphaPattern ==
    <<Lit({"r"}), Lit({"g"}), Lit({"b"}), Lit({"a"}), Run("space", 0, FALSE), Lit({"("}),
      Run("notcomma", 1, FALSE), Lit({","}), Run("notcomma", 1, FALSE), Lit({","}),
      Run("notcomma", 1, FALSE), Lit({","}), Run("space", 0, FALSE),
      Run("digitdot", 1, TRUE), Run("space", 0, FALSE), Lit({")"})>>

\* The alpha group, or <<>> without a match.
RgbaAlphaMatch(s) ==
    CHOOSE r \in {IF m.ok THEN m.caps[1] ELSE <<>> : m \in {ReMatch(RgbaAlphaPattern, s)}} :
        TRUE

\* The hex branch on hex_color = color_str.lstrip('#').
HexAlphaZero(hex_color) ==
    IF Len(hex_color) = 4 THEN hex_color[4] = "0"
    ELSE IF Len(hex_color) = 8 THEN SubSeq(hex_color, 7, 8) = <<"0", "0">>
    ELSE FALSE

HexTransparent(color_str) ==
    IF StartsWith(color_str, <<"#">>)
    THEN CHOOSE r \in {HexAlphaZero(hex_color) : hex_color \in {LStripHash(color_str)}} : TRUE
    ELSE FALSE

TransparentGivenMut(color_str, rgba_match) ==
    IF rgba_match # <<>> THEN AlphaNotPositive(rgba_match) ELSE FALSE

TransparentGiven(color_str, rgba_match) ==
    IF rgba_match # <<>> THEN AlphaNotPositive(rgba_match) ELSE HexTransparent(color_str)

_is_fully_transparent(color_str) ==
    CHOOSE r \in {TransparentGiven(color_str, rgba_match) :
                    rgba_match \in {RgbaAlphaMatch(color_str)}} : TRUE

RejectedKeywords ==
    {<<"t", "r", "a", "n", "s", "p", "a", "r", "e", "n", "t">>,
     <<"n", "o", "n", "e">>,
     <<"i", "n", "i", "t", "i", "a", "l">>,
     <<"i", "n", "h", "e", "r", "i", "t">>,
     <<"u", "n", "s", "e", "t">>}

\* The checks after strip().lower().
NormalizeComputedLowered(lowered) ==
    IF Contains(lowered, <<"v", "a", "r", "(", "-", "-", "t", "w", "-">>) THEN None
    ELSE IF lowered \in RejectedKeywords THEN None
    ELSE IF _is_fully_transparent(lowered) THEN None
    ELSE normalize_color(lowered)

_normalize_computed_color(color_str) ==
    IF ~Truthy(color_str) THEN None
    ELSE CHOOSE r \in {NormalizeComputedLowered(lowered) :
                         lowered \in {Lower(Strip(color_str))}} : TRUE

(* ---------------------------------------------------------------------- *)
(* WebpageAnalyzer._rank_colors                                           *)
(* ---------------------------------------------------------------------- *)
KeyOf(item) == <<item.role, item.color>>

EmptyTally == [order |-> <<>>, counts |-> <<>>, area_sums |-> <<>>, type_sets |-> <<>>]

\* One iteration of the accumulation loop.  order is the insertion order of
\* the keys of the dict counts (a key is inserted when first seen).
TallyStep(t, item) ==
    LET key == KeyOf(item) IN
    IF \E i \in 1..Len(t.order) : t.order[i] = key
    THEN LET i == CHOOSE j \in 1..Len(t.order) : t.order[j] = key IN
         [order     |-> t.order,
          counts    |-> [t.counts EXCEPT ![i] = @ + 1],
          area_sums |-> [t.area_sums EXCEPT ![i] = @ + item.area],
          type_sets |-> [t.type_sets EXCEPT ![i] = @ \cup {item.type}]]
    ELSE [order     |-> Append(t.order, key),
          counts    |-> Append(t.counts, 1),
          area_sums |-> Append(t.area_sums, item.area),
          type_sets |-> Append(t.type_sets, {item.type})]

RECURSIVE Tally(_)
Tally(its) ==
    IF its = <<>> THEN EmptyTally
    ELSE TallyStep(Tally(SubSeq(its, 1, Len(its) - 1)), its[Len(its)])

ScoreMut(area_sum, count) == area_sum + count

Score(area_sum, count) == area_sum * count

\* The entries appended to ranked[role], in the iteration order of counts.
RECURSIVE EntriesFrom(_, _, _)
EntriesFrom(t, role, i) ==
    IF i > Len(t.order) THEN <<>>
    ELSE IF t.order[i][1] = role
         THEN <<[color            |-> t.order[i][2],
                 score            |-> Score(t.area_sums[i], t.counts[i]),
                 occurrence_count |-> t.counts[i],
                 area_sum         |-> t.area_sums[i],
                 sample_types     |-> t.type_sets[i]]>>
              \o EntriesFrom(t, role, i + 1)
         ELSE EntriesFrom(t, role, i + 1)

ComesBeforeMut(a, b) == a.score > b.score

\* list.sort(key=score, reverse=True) keeps entries of equal score in their
\* original order: an entry moves ahead of another only on a larger score.
ComesBefore(a, b) == a.score >= b.score

\* Insert e behind every entry of the sorted list s that comes before it.
RECURSIVE InsertSorted(_, _)
InsertSorted(s, e) ==
    IF s = <<>> THEN <<e>>
    ELSE IF ComesBefore(Head(s), e) THEN <<Head(s)>> \o InsertSorted(Tail(s), e)
    ELSE <<e>> \o s

RECURSIVE SortByScore(_)
SortByScore(s) ==
    IF s = <<>> THEN <<>>
    ELSE InsertSorted(SortByScore(SubSeq(s, 1, Len(s) - 1)), s[Len(s)])

\* dict(ranked): only the roles that occur in its are keys.
_rank_colors(its) ==
    LET t == Tally(its)
        present == {t.order[i][1] : i \in 1..Len(t.order)}
    IN  [role \in present |-> SortByScore(EntriesFrom(t, role, 1))]

\* ranked.get(role, [])
RankedGet(ranked, role) == IF role \in DOMAIN ranked THEN ranked[role] ELSE <<>>

(* ---------------------------------------------------------------------- *)
(* WebpageAnalyzer._infer_tokens                                          *)
(* ---------------------------------------------------------------------- *)
Filtered(its, role, allowed_types) ==
    SelectSeq(its, LAMBDA item : item.role = role /\ item.type \in allowed_types)

top_color_for(its, role, allowed_types) ==
    LET filtered == Filtered(its, role, allowed_types) IN
    IF filtered = <<>> THEN None
    ELSE LET ranked == RankedGet(_rank_colors(filtered), role) IN
         IF ranked # <<>> THEN ranked[1].color ELSE None

top_colors_for(its, role, allowed_types, limit) ==
    LET filtered == Filtered(its, role, allowed_types)
        ranked == RankedGet(_rank_colors(filtered), role)
        n == IF Len(ranked) < limit THEN Len(ranked) ELSE limit
    IN  [i \in 1..n |-> ranked[i].color]

\* Default of the limit parameter of top_colors_for.
DefaultLimit == 3

widget_bg(its) == top_color_for(its, "background", {"body", "main", "container"})

border_token(its) == top_color_for(its, "border", {"container", "body", "main"})

text_primary(its) == top_color_for(its, "text", {"heading", "paragraph"})

text_mutedMut(its) ==
    LET text_candidates == top_colors_for(its, "text", {"heading", "paragraph"}, DefaultLimit) IN
    IF Len(text_candidates) > 0 THEN text_candidates[Len(text_candidates)] ELSE None

text_muted(its) ==
    LET text_candidates == top_colors_for(its, "text", {"heading", "paragraph"}, DefaultLimit) IN
    IF Len(text_candidates) > 1 THEN text_candidates[2] ELSE None

accentMut(its) == top_color_for(its, "background", {"button", "link"})

accent(its) ==
    LET a == top_color_for(its, "background", {"button"}) IN
    IF ~Truthy(a) THEN top_color_for(its, "text", {"link"}) ELSE a

\* The first candidate that differs from acc, as the for loop with break
\* finds it.
RECURSIVE FirstDiffering(_, _)
FirstDiffering(candidates, acc) ==
    IF candidates = <<>> THEN None
    ELSE IF Head(candidates) # acc THEN Head(candidates)
    ELSE FirstDiffering(Tail(candidates), acc)

accent_hoverMut(its) ==
    LET c == top_colors_for(its, "background", {"button"}, DefaultLimit) IN
    IF Truthy(accent(its)) /\ Len(c) > 0 THEN c[Len(c)] ELSE None

accent_hover(its) ==
    IF Truthy(accent(its))
    THEN FirstDiffering(top_colors_for(its, "background", {"button"}, DefaultLimit), accent(its))
    ELSE None

bot_bubble_bg(its) ==
    LET c == top_color_for(its, "background", {"container"}) IN
    IF Truthy(c) THEN c ELSE widget_bg(its)

user_bubble_bg(its) ==
    IF Truthy(accent(its)) THEN accent(its)
    ELSE top_color_for(its, "background", {"link"})

user_bubble_text(its) ==
    IF Truthy(user_bubble_bg(its))
    THEN (IF _is_dark_color(user_bubble_bg(its)) THEN White ELSE Black)
    ELSE None

_infer_tokens(its, ranked) ==
    [widgetBg       |-> widget_bg(its),
     border         |-> border_token(its),
     textPrimary    |-> text_primary(its),
     textMuted      |-> text_muted(its),
     accent         |-> accent(its),
     accentHover    |-> accent_hover(its),
     botBubbleBg    |-> bot_bubble_bg(its),
     userBubbleBg   |-> user_bubble_bg(its),
     userBubbleText |-> user_bubble_text(its)]

NoTokens == [widgetBg |-> None, border |-> None, textPrimary |-> None, textMuted |-> None,
             accent |-> None, accentHover |-> None, botBubbleBg |-> None,
             userBubbleBg |-> None, userBubbleText |-> None]

(* ---------------------------------------------------------------------- *)
(* WebpageAnalyzer._safe_float and _process_samples                       *)
(* ---------------------------------------------------------------------- *)
\* Lengths are in hundredths of a pixel and areas in hundredths of a square
\* pixel: One is the float 1.0 of the comparisons.
One == 100

\* str.replace('px', '')
RECURSIVE RemovePx(_)
RemovePx(s) ==
    IF s = <<>> THEN <<>>
    ELSE IF StartsWith(s, <<"p", "x">>) THEN RemovePx(SubSeq(s, 3, Len(s)))
    ELSE <<Head(s)>> \o RemovePx(Tail(s))

\* A decimal numeral: an optional sign, digits, an optional point, digits.
FloatPattern ==
    <<Opt({"-", "+"}), Run("digit", 0, TRUE), Opt({"."}), Run("digit", 0, TRUE)>>

\* The float of a match m of FloatPattern on s: <<v>> with v in hundredths,
\* truncated, or <<>> for the ValueError raised on what is no numeral.
FloatOf(s, m) ==
    IF m.pos = Len(s) + 1 /\ Len(m.caps[1]) + Len(m.caps[2]) > 0
    THEN <<(IF CharAt(s, 1) = "-" THEN -1 ELSE 1)
             * (One * ParseInt(m.caps[1])
                  + ParseInt(SubSeq(m.caps[2] \o <<"0", "0">>, 1, 2)))>>
    ELSE <<>>

ParseFloat(s) ==
    CHOOSE r \in {FloatOf(s, m) : m \in {ReMatch(FloatPattern, s)}} : TRUE

\* str(value): None becomes 'None'.
Str(value) == IF value = None THEN <<"N", "o", "n", "e">> ELSE value

_safe_float(value) ==
    CHOOSE r \in {IF f = <<>> THEN 0 ELSE f[1] :
                    f \in {ParseFloat(Strip(RemovePx(Str(value))))}} : TRUE

has_visible_borderMut(sample) == _safe_float(sample.borderTopWidth) >= One

has_visible_border(sample) ==
    \E w \in {_safe_float(sample.borderTopWidth), _safe_float(sample.borderRightWidth),
              _safe_float(sample.borderBottomWidth), _safe_float(sample.borderLeftWidth)} :
        w >= One

is_tinyMut(sample) ==
    sample.width <= One /\ sample.height <= One /\ sample.area <= One

is_tiny(sample) ==
    sample.width <= One \/ sample.height <= One \/ sample.area <= One

\* The two nulling rules on the normalized colours of a sample.
Nulled(sample, color, background, border, visible) ==
    [color      |-> IF is_tiny(sample) /\ ~visible THEN None ELSE color,
     background |-> IF is_tiny(sample) /\ ~visible THEN None ELSE background,
     border     |-> IF Truthy(border) /\ ~visible THEN None ELSE border]

\* The three colours of a sample after normalization and nulling.
SampleColors(sample) ==
    CHOOSE r \in {Nulled(sample, color, background, border, visible) :
                    color \in {_normalize_computed_color(sample.color)},
                    background \in {_normalize_computed_color(sample.backgroundColor)},
                    border \in {_normalize_computed_color(sample.borderColor)},
                    visible \in {has_visible_border(sample)}} : TRUE

\* The record appended to processed_samples (tag and selector, copied from
\* the sample unchanged, are left out).
FilteredSample(sample, c) ==
    [type            |-> sample.type,
     width           |-> sample.width,
     height          |-> sample.height,
     area            |-> sample.area,
     color           |-> c.color,
     backgroundColor |-> c.background,
     borderColor     |-> c.border]

Contribution(role, color, sample) ==
    [role |-> role, color |-> color, area |-> sample.area, type |-> sample.type]

\* The contributions of one surviving sample: text, background, border.
SampleItems(sample, c) ==
    (IF Truthy(c.color) THEN <<Contribution("text", c.color, sample)>> ELSE <<>>)
    \o (IF Truthy(c.background)
        THEN <<Contribution("background", c.background, sample)>> ELSE <<>>)
    \o (IF Truthy(c.border) THEN <<Contribution("border", c.border, sample)>> ELSE <<>>)

KeepSampleMut(acc, sample, c) ==
    [processed_samples |-> Append(acc.processed_samples, FilteredSample(sample, c)),
     items             |-> acc.items \o SampleItems(sample, c)]

\* One iteration of the loop over the samples: a sample without a positive
\* area or without a truthy colour is skipped.
KeepSample(acc, sample, c) ==
    IF ~(Truthy(c.color) \/ Truthy(c.background) \/ Truthy(c.border)) THEN acc
    ELSE [processed_samples |-> Append(acc.processed_samples, FilteredSample(sample, c)),
          items             |-> acc.items \o SampleItems(sample, c)]

ProcessStep(acc, sample) ==
    IF sample.area <= 0 THEN acc
    ELSE CHOOSE r \in {KeepSample(acc, sample, c) : c \in {SampleColors(sample)}} : TRUE

RECURSIVE ProcessLoop(_, _, _)
ProcessLoop(ss, k, acc) ==
    IF k > Len(ss) THEN acc
    ELSE CHOOSE r \in {ProcessLoop(ss, k + 1, acc2) : acc2 \in {ProcessStep(acc, ss[k])}} :
           TRUE

\* The processed samples and the contributions of the sample list.
ProcessAll(ss) == ProcessLoop(ss, 1, [processed_samples |-> <<>>, items |-> <<>>])

\* Before analyze is called: no backend started, nothing returned.
NoResult == [kind |-> "unset"]

InitRender ==
    /\ playwright = "none"
    /\ browser = "none"
    /\ backend_calls = 0
    /\ outcome = "none"
    /\ result = NoResult

\* WebsiteScraper.__init__, before any crawl.
InitScraper ==
    /\ max_pages = 0
    /\ urls_to_visit = <<>>
    /\ visited_urls = {}
    /\ pages_content = <<>>
    /\ scraped = <<>>

\* ColorExtractor.__init__ and WebpageAnalyzer.__init__: no record, no custom
\* property, nothing fetched.
NoColors == [k \in {} |-> 0]

InitStatic ==
    /\ colors = NoColors
    /\ css_variables = NoColors
    /\ add_log = <<>>
    /\ css = <<>>
    /\ passes = 0
    /\ links = <<>>
    /\ link_i = 1
    /\ fetched = <<>>
    /\ category_call = <<>>
    /\ normalize_call = <<>>
    /\ InitScraper

(* ---------------------------------------------------------------------- *)
(* The ranker and the token inferencer applied to a contribution list     *)
(* ---------------------------------------------------------------------- *)
Areas == {1, 2}

\* Contributions given to the ranker: three colours in two roles.
RankItems ==
    [role : {"text", "background"}, color : {Dark1, Dark2, White},
     area : Areas, type : {"button", "link"}]

\* Contributions given to the token inferencer: two greys on either side of
\* the luminance threshold, on the element types the accent tokens read.
TokenItems ==
    [role : {"text", "background"}, color : {Grey187, Grey188},
     area : Areas, type : {"button", "link", "heading"}]

\* The ranking example of the specification's section 8.
ExampleItems ==
    [role : {"background"}, color : {C111, C222}, area : {10, 100}, type : {"button"}]

InitRank ==
    /\ samples = <<>>
    /\ processed_samples = <<>>
    /\ items = <<>>
    /\ ranked_colors = <<>>
    /\ tokens = NoTokens
    /\ pc = "collect"
    /\ InitRender
    /\ InitStatic

\* items.append({...}): the caller adds one contribution.
AddItem(universe, max) ==
    /\ pc = "collect"
    /\ Len(items) < max
    /\ \E item \in universe : items' = Append(items, item)
    /\ UNCHANGED <<samples, processed_samples, ranked_colors, tokens, pc, render_vars, static_vars,
                   normalize_call, scraper_vars>>

\* ranked_colors = self._rank_colors(items); tokens = self._infer_tokens(...)
RankAndInfer ==
    /\ pc = "collect"
    /\ \E ranked \in {_rank_colors(items)} :
         /\ ranked_colors' = ranked
         /\ tokens' = _infer_tokens(items, ranked)
    /\ pc' = "done"
    /\ UNCHANGED <<samples, processed_samples, items, render_vars, static_vars,
                   normalize_call, scraper_vars>>

NextRank == AddItem(RankItems, MaxItems) \/ RankAndInfer

SpecRank == InitRank /\ [][NextRank]_vars

NextTokens == AddItem(TokenItems, MaxItems) \/ RankAndInfer

SpecTokens == InitRank /\ [][NextTokens]_vars

NextExample == AddItem(ExampleItems, MaxExampleItems) \/ RankAndInfer

SpecExample == InitRank /\ [][NextExample]_vars

(* ---------------------------------------------------------------------- *)
(* The sample filter applied to the samples of the computed-style source  *)
(* ---------------------------------------------------------------------- *)
CommaSeparators == {<<",">>, <<",", " ">>}

\* 'rgba(r, g, b, a)' as a computed style serializes it, and without spaces.
RgbaRaw(rgb, a, sep) ==
    <<"r", "g", "b", "a", "(">> \o rgb[1] \o sep \o rgb[2] \o sep \o rgb[3] \o sep \o a \o <<")">>

RgbTriples == {<<<<"0">>, <<"0">>, <<"0">>>>, <<<<"2", "5", "5">>, <<"0">>, <<"0">>>>}

ZeroAlphas == {<<"0">>, <<"0", ".", "0">>}

PositiveAlphas == {<<"0", ".", "5">>, <<"1">>}

OpaqueRed == <<"r", "g", "b", "(", "2", "5", "5", ",", " ", "0", ",", " ", "0", ")">>

OpaqueBlack == <<"r", "g", "b", "(", "0", ",", " ", "0", ",", " ", "0", ")">>

TransparentRgba == <<"r", "g", "b", "a", "(", "0", ",", "0", ",", "0", ",", "0", ")">>

\* Values of one computed colour field: missing and empty values, keywords,
\* rgba() with zero and positive alpha, hex with and without alpha digits,
\* a colour name and a leaked framework variable.
ColorRaws ==
    {None, <<>>, <<" ">>, <<" ", "T", "r", "a", "n", "s", "p", "a", "r", "e", "n", "t", " ">>}
    \cup RejectedKeywords
    \cup {RgbaRaw(rgb, a, sep) :
            rgb \in RgbTriples, a \in ZeroAlphas \cup PositiveAlphas, sep \in CommaSeparators}
    \cup {OpaqueRed, OpaqueBlack}
    \cup {<<"#">> \o rgb \o a : rgb \in {<<"f", "f", "f">>, <<"f", "0", "0">>}, a \in {<<"0">>, <<"8">>, <<"f">>}}
    \cup {<<"#", "f", "f", "0", "0", "0", "0">> \o a : a \in {<<"0", "0">>, <<"0", "f">>, <<"8", "0">>, <<"f", "f">>}}
    \cup {<<"#", "f", "f", "f">>, <<"#", "f", "f", "0", "0", "0", "0">>, <<"r", "e", "d">>, <<"v", "a", "r", "(", "-", "-", "t", "w", "-", "r", "i", "n", "g", "-", "c", "o", "l", "o", "r", ")">>}

\* (width, height, area) of an element: 0.5 x 0.5, 1 x 20, 20 x 1,
\* 1.1 x 1.1, 10 x 10 and an empty box.
Geometries ==
    {<<50, 50, 25>>, <<100, 2000, 2000>>, <<2000, 100, 2000>>,
     <<110, 110, 121>>, <<1000, 1000, 10000>>, <<0, 1000, 0>>}

Px0 == <<"0", "p", "x">>
Px05 == <<"0", ".", "5", "p", "x">>
Px1 == <<"1", "p", "x">>

\* (top, right, bottom, left) border widths: none, all thin, left edge only.
EdgeWidths == {<<Px0, Px0, Px0, Px0>>, <<Px05, Px05, Px05, Px05>>, <<Px0, Px0, Px0, Px1>>}

MakeSample(type, g, text, bg, border, e) ==
    [type |-> type, width |-> g[1], height |-> g[2], area |-> g[3],
     color |-> text, backgroundColor |-> bg, borderColor |-> border,
     borderTopWidth |-> e[1], borderRightWidth |-> e[2],
     borderBottomWidth |-> e[3], borderLeftWidth |-> e[4]]

\* Samples that vary one colour field over ColorRaws on a plain 10 x 10 box,
\* samples that vary geometry and border widths over a background and a
\* border colour that are either valid or transparent, and samples without
\* any colour.
SampleUniverse ==
    {MakeSample("button", <<1000, 1000, 10000>>, None, bg, None, <<Px0, Px0, Px0, Px0>>) :
        bg \in ColorRaws}
    \cup {MakeSample("button", g, OpaqueBlack, bg, border, e) :
            g \in Geometries,
            bg \in {OpaqueRed, TransparentRgba}, border \in {OpaqueBlack, TransparentRgba},
            e \in EdgeWidths}
    \cup {MakeSample("button", g, None, TransparentRgba, TransparentRgba, e) :
            g \in Geometries, e \in EdgeWidths}

InitFilter ==
    /\ samples = <<>>
    /\ processed_samples = <<>>
    /\ items = <<>>
    /\ ranked_colors = <<>>
    /\ tokens = NoTokens
    /\ pc = "collect"
    /\ InitRender
    /\ InitStatic

\* samples.push({...}): the computed-style source delivers one more sample.
AddSample ==
    /\ pc = "collect"
    /\ Len(samples) < MaxSamples
    /\ \E sample \in SampleUniverse : samples' = Append(samples, sample)
    /\ UNCHANGED <<processed_samples, items, ranked_colors, tokens, pc, render_vars, static_vars,
                   normalize_call, scraper_vars>>

\* _process_samples(samples): filter, rank and infer.
ProcessSamples ==
    /\ pc = "collect"
    /\ \E out \in {ProcessAll(samples)} :
         /\ processed_samples' = out.processed_samples
         /\ items' = out.items
         /\ \E ranked \in {_rank_colors(out.items)} :
              /\ ranked_colors' = ranked
              /\ tokens' = _infer_tokens(out.items, ranked)
    /\ pc' = "done"
    /\ UNCHANGED <<samples, render_vars, static_vars, normalize_call, scraper_vars>>

NextFilter == AddSample \/ ProcessSamples

SpecFilter == InitFilter /\ [][NextFilter]_vars

(* ---------------------------------------------------------------------- *)
(* WebpageAnalyzer.analyze with use_playwright, statement by statement    *)
(* ---------------------------------------------------------------------- *)
\* What page.evaluate can deliver: boxes of every geometry and edge width
\* with an opaque or a transparent background.
RenderedSamples ==
    {MakeSample("button", g, OpaqueBlack, bg, OpaqueBlack, e) :
        g \in Geometries, bg \in {OpaqueRed, TransparentRgba}, e \in EdgeWidths}

RECURSIVE SeqsUpTo(_, _)
SeqsUpTo(S, n) ==
    IF n = 0 THEN {<<>>}
    ELSE SeqsUpTo(S, n - 1)
           \cup {Append(q, x) : q \in {r \in SeqsUpTo(S, n - 1) : Len(r) = n - 1}, x \in S}

\* samples = self._sample_elements_with_playwright(); with sync_playwright() as p
EnterPlaywright ==
    /\ pc = "collect"
    /\ backend_calls' = backend_calls + 1
    /\ \/ playwright' = "running" /\ pc' = "launch" /\ UNCHANGED outcome
       \/ playwright' = "none" /\ pc' = "except" /\ outcome' = "error"
    /\ UNCHANGED <<samples, processed_samples, items, ranked_colors, tokens, browser, result,
                   static_vars, normalize_call, scraper_vars>>

\* A statement of the with block raises: control leaves the block.
Raise(kind) ==
    /\ pc' = "exit"
    /\ outcome' = kind
    /\ UNCHANGED <<samples, browser>>

\* browser = p.chromium.launch(headless=True); page = browser.new_page()
Launch ==
    /\ pc = "launch"
    /\ \/ browser' = "open" /\ pc' = "goto" /\ UNCHANGED <<samples, outcome>>
       \/ Raise("error")
    /\ UNCHANGED <<processed_samples, items, ranked_colors, tokens, playwright,
                   backend_calls, result, static_vars, normalize_call, scraper_vars>>

\* page.goto(self.url, timeout=..., wait_until='domcontentloaded')
Goto ==
    /\ pc = "goto"
    /\ \/ pc' = "evaluate" /\ UNCHANGED <<samples, browser, outcome>>
       \/ Raise("timeout")
       \/ Raise("error")
    /\ UNCHANGED <<processed_samples, items, ranked_colors, tokens, playwright,
                   backend_calls, result, static_vars, normalize_call, scraper_vars>>

\* samples = page.evaluate(script)
Evaluate ==
    /\ pc = "evaluate"
    /\ \/ /\ \E ss \in SeqsUpTo(RenderedSamples, MaxSamples) : samples' = ss
          /\ pc' = "close"
          /\ UNCHANGED <<browser, outcome>>
       \/ Raise("timeout")
       \/ Raise("error")
    /\ UNCHANGED <<processed_samples, items, ranked_colors, tokens, playwright,
                   backend_calls, result, static_vars, normalize_call, scraper_vars>>

\* browser.close(); return samples or []
CloseBrowser ==
    /\ pc = "close"
    /\ \/ browser' = "closed" /\ pc' = "exit" /\ outcome' = "ok" /\ UNCHANGED samples
       \/ Raise("error")
    /\ UNCHANGED <<processed_samples, items, ranked_colors, tokens, playwright,
                   backend_calls, result, static_vars, normalize_call, scraper_vars>>

\* What leaving the with block does to the browser: stopping Playwright
\* ends the browser it launched.
BrowserAfterStopMut(b) == b

BrowserAfterStop(b) == IF b = "open" THEN "closed" ELSE b

\* Leaving the with block, by return or by exception: Playwright is stopped.
ExitWith ==
    /\ pc = "exit"
    /\ playwright' = "stopped"
    /\ browser' = BrowserAfterStop(browser)
    /\ pc' = IF outcome = "ok" THEN "returned" ELSE "except"
    /\ UNCHANGED <<samples, processed_samples, items, ranked_colors, tokens,
                   backend_calls, outcome, result, static_vars, normalize_call, scraper_vars>>

\* except PlaywrightTimeoutError / except Exception: return []
Except ==
    /\ pc = "except"
    /\ samples' = <<>>
    /\ pc' = "returned"
    /\ UNCHANGED <<processed_samples, items, ranked_colors, tokens, render_vars, static_vars,
                   normalize_call, scraper_vars>>

\* The value analyze returns for the samples of the backend.
analyze_resultMut(ss) ==
    [kind |-> "AnalysisResult", computed_samples |-> ProcessAll(ss).processed_samples,
     ranked_colors |-> _rank_colors(ProcessAll(ss).items)]

analyze_result(ss) ==
    IF ss = <<>> THEN [kind |-> "None"]
    ELSE [kind |-> "AnalysisResult", computed_samples |-> ProcessAll(ss).processed_samples,
          ranked_colors |-> _rank_colors(ProcessAll(ss).items)]

\* if not samples: return None; otherwise _process_samples and AnalysisResult
AnalyzeReturn ==
    /\ pc = "returned"
    /\ \E r \in {analyze_result(samples)} :
         /\ result' = r
         /\ IF r.kind = "None"
            THEN UNCHANGED <<processed_samples, items, ranked_colors, tokens>>
            ELSE \E out \in {ProcessAll(samples)} :
                   /\ processed_samples' = out.processed_samples
                   /\ items' = out.items
                   /\ ranked_colors' = r.ranked_colors
                   /\ tokens' = _infer_tokens(out.items, r.ranked_colors)
    /\ pc' = "done"
    /\ UNCHANGED <<samples, playwright, browser, backend_calls, outcome, static_vars,
                   normalize_call, scraper_vars>>

NextAnalyze ==
    \/ EnterPlaywright \/ Launch \/ Goto \/ Evaluate \/ CloseBrowser
    \/ ExitWith \/ Except \/ AnalyzeReturn

SpecAnalyze == InitFilter /\ [][NextAnalyze]_vars

(* ---------------------------------------------------------------------- *)
(* ColorExtractor._add_color                                              *)
(* ---------------------------------------------------------------------- *)
MaxCalls == 3

\* The defaultdict's record for a colour not seen before.
NewRecord == [value |-> <<>>, normalized |-> <<>>, selectors |-> {}, properties |-> {},
              frequency |-> 0]

RecordOf(cs, normalized) == IF normalized \in DOMAIN cs THEN cs[normalized] ELSE NewRecord

UpdatedMut(old, original, normalized, selector, property_name) ==
    [value      |-> original,
     normalized |-> normalized,
     selectors  |-> {selector},
     properties |-> {property_name},
     frequency  |-> old.frequency + 1]

\* The record after one more use of its colour.
Updated(old, original, normalized, selector, property_name) ==
    [value      |-> original,
     normalized |-> normalized,
     selectors  |-> old.selectors \cup {selector},
     properties |-> old.properties \cup {property_name},
     frequency  |-> old.frequency + 1]

_add_color(cs, original, normalized, selector, property_name) ==
    [k \in DOMAIN cs \cup {normalized} |->
       IF k = normalized
       THEN Updated(RecordOf(cs, normalized), original, normalized, selector, property_name)
       ELSE cs[k]]

\* Raw colours the callers of _add_color pass, with their selectors and
\* properties.
RawColors == {<<"#", "F", "0", "0">>, <<"#", "f", "f", "0", "0", "0", "0">>, <<"r", "e", "d">>, <<"#", "0", "0", "f">>}

AddSelectors == {".a", ".b"}

AddProperties == {"color", "background"}

\* self._add_color(color, normalized, selector, prop): the callers pass the
\* truthy normalize_color of the raw colour.
AddColor ==
    /\ pc = "collect"
    /\ Len(add_log) < MaxCalls
    /\ \E original \in RawColors, selector \in AddSelectors, property_name \in AddProperties :
         \E normalized \in {normalize_color(original)} :
           /\ Truthy(normalized)
           /\ colors' = _add_color(colors, original, normalized, selector, property_name)
           /\ add_log' = Append(add_log, [original |-> original, normalized |-> normalized,
                                          selector |-> selector,
                                          property_name |-> property_name])
    /\ UNCHANGED <<samples, processed_samples, items, ranked_colors, tokens, pc, render_vars,
                   css_variables, css, passes, links, link_i, fetched, category_call,
                   normalize_call, scraper_vars>>

NextAddColor == AddColor

SpecAddColor == InitFilter /\ [][NextAddColor]_vars

(* ---------------------------------------------------------------------- *)
(* ColorExtractor.categorize_color                                        *)
(* ---------------------------------------------------------------------- *)
BACKGROUND_KEYWORDS ==
    <<<<"b", "a", "c", "k", "g", "r", "o", "u", "n", "d">>,
     <<"b", "g">>,
     <<"s", "u", "r", "f", "a", "c", "e">>,
     <<"c", "a", "r", "d">>,
     <<"m", "o", "d", "a", "l">>,
     <<"o", "v", "e", "r", "l", "a", "y">>,
     <<"s", "e", "c", "t", "i", "o", "n">>>>

TEXT_KEYWORDS ==
    <<<<"t", "e", "x", "t">>,
     <<"c", "o", "l", "o", "r">>,
     <<"f", "o", "n", "t">>,
     <<"h", "e", "a", "d", "i", "n", "g">>,
     <<"p", "a", "r", "a", "g", "r", "a", "p", "h">>,
     <<"c", "a", "p", "t", "i", "o", "n">>,
     <<"l", "a", "b", "e", "l">>>>

INTERACTIVE_KEYWORDS ==
    <<<<"b", "u", "t", "t", "o", "n">>,
     <<"b", "t", "n">>,
     <<"l", "i", "n", "k">>,
     <<"a", "n", "c", "h", "o", "r">>,
     <<"i", "n", "p", "u", "t">>,
     <<"f", "o", "c", "u", "s">>,
     <<"h", "o", "v", "e", "r">>,
     <<"a", "c", "t", "i", "v", "e">>>>

BORDER_KEYWORDS ==
    <<<<"b", "o", "r", "d", "e", "r">>,
     <<"o", "u", "t", "l", "i", "n", "e">>,
     <<"d", "i", "v", "i", "d", "e", "r">>,
     <<"s", "e", "p", "a", "r", "a", "t", "o", "r">>,
     <<"s", "t", "r", "o", "k", "e">>>>

\* The dict in insertion order: category, then its keywords.
SEMANTIC_KEYWORDS ==
    <<[category |-> "success",
       keywords |-> <<<<"s", "u", "c", "c", "e", "s", "s">>,
                     <<"p", "o", "s", "i", "t", "i", "v", "e">>,
                     <<"g", "r", "e", "e", "n">>,
                     <<"v", "a", "l", "i", "d">>>>],
      [category |-> "error",
       keywords |-> <<<<"e", "r", "r", "o", "r">>,
                     <<"d", "a", "n", "g", "e", "r">>,
                     <<"r", "e", "d">>,
                     <<"i", "n", "v", "a", "l", "i", "d">>,
                     <<"a", "l", "e", "r", "t">>>>],
      [category |-> "warning",
       keywords |-> <<<<"w", "a", "r", "n", "i", "n", "g">>,
                     <<"c", "a", "u", "t", "i", "o", "n">>,
                     <<"y", "e", "l", "l", "o", "w">>,
                     <<"o", "r", "a", "n", "g", "e">>>>],
      [category |-> "info",
       keywords |-> <<<<"i", "n", "f", "o">>,
                     <<"i", "n", "f", "o", "r", "m", "a", "t", "i", "o", "n">>,
                     <<"b", "l", "u", "e">>,
                     <<"n", "o", "t", "i", "c", "e">>>>]>>

\* any(kw in s for kw in keywords)
AnyIn(keywords, s) == \E k \in 1..Len(keywords) : Contains(s, keywords[k])

\* The loop over SEMANTIC_KEYWORDS from entry k on: the first category with
\* a keyword in the selector, or "" when there is none.
RECURSIVE SemanticFrom(_, _)
SemanticFrom(selector_lower, k) ==
    IF k > Len(SEMANTIC_KEYWORDS) THEN ""
    ELSE IF AnyIn(SEMANTIC_KEYWORDS[k].keywords, selector_lower)
         THEN SEMANTIC_KEYWORDS[k].category
    ELSE SemanticFrom(selector_lower, k + 1)

\* The rules after the semantic loop.
AfterSemanticMut(selector_lower, property_lower) ==
    IF property_lower = <<"c", "o", "l", "o", "r">> \/ AnyIn(TEXT_KEYWORDS, selector_lower) THEN "text"
    ELSE IF AnyIn(INTERACTIVE_KEYWORDS, selector_lower) THEN "interactive"
    ELSE IF Contains(property_lower, <<"b", "o", "r", "d", "e", "r">>) \/ AnyIn(BORDER_KEYWORDS, selector_lower)
         THEN "border"
    ELSE IF Contains(property_lower, <<"b", "a", "c", "k", "g", "r", "o", "u", "n", "d">>)
              \/ AnyIn(BACKGROUND_KEYWORDS, selector_lower)
         THEN "background"
    ELSE "other"

AfterSemantic(selector_lower, property_lower) ==
    IF AnyIn(INTERACTIVE_KEYWORDS, selector_lower) THEN "interactive"
    ELSE IF Contains(property_lower, <<"b", "o", "r", "d", "e", "r">>) \/ AnyIn(BORDER_KEYWORDS, selector_lower)
         THEN "border"
    ELSE IF Contains(property_lower, <<"b", "a", "c", "k", "g", "r", "o", "u", "n", "d">>)
              \/ AnyIn(BACKGROUND_KEYWORDS, selector_lower)
         THEN "background"
    ELSE IF property_lower = <<"c", "o", "l", "o", "r">> \/ AnyIn(TEXT_KEYWORDS, selector_lower) THEN "text"
    ELSE "other"

CategoryOf(selector_lower, property_lower, semantic) ==
    IF semantic # "" THEN "semantic_" \o semantic
    ELSE AfterSemantic(selector_lower, property_lower)

categorize_color(selector, property_name) ==
    CHOOSE r \in {CategoryOf(selector_lower, property_lower, semantic) :
                    selector_lower \in {Lower(selector)},
                    property_lower \in {Lower(property_name)},
                    semantic \in {SemanticFrom(Lower(selector), 1)}} : TRUE

\* Class names, one or two of which make a selector, and property names.
SelectorWords ==
    {<<"s", "u", "c", "c", "e", "s", "s">>,
     <<"e", "r", "r", "o", "r">>,
     <<"i", "n", "f", "o">>,
     <<"w", "a", "r", "n", "i", "n", "g">>,
     <<"b", "t", "n">>,
     <<"d", "i", "v", "i", "d", "e", "r">>,
     <<"c", "a", "r", "d">>,
     <<"l", "a", "b", "e", "l">>,
     <<"m", "e", "s", "s", "a", "g", "e">>,
     <<"A", "l", "e", "r", "t">>}

CategorizeSelectors ==
    {<<".">> \o a : a \in SelectorWords}
    \cup {<<".">> \o a \o <<"-">> \o b : a \in SelectorWords, b \in SelectorWords}

CategorizeProperties ==
    {<<"c", "o", "l", "o", "r">>,
     <<"b", "a", "c", "k", "g", "r", "o", "u", "n", "d", "-", "c", "o", "l", "o", "r">>,
     <<"b", "o", "r", "d", "e", "r", "-", "c", "o", "l", "o", "r">>,
     <<"C", "o", "l", "o", "r">>,
     <<"f", "i", "l", "l">>}

\* category = self.color_extractor.categorize_color(selector, prop)
Categorize ==
    /\ pc = "collect"
    /\ category_call = <<>>
    /\ \E selector \in CategorizeSelectors, property_name \in CategorizeProperties :
         category_call' = [selector |-> selector, property_name |-> property_name,
                           category |-> categorize_color(selector, property_name)]
    /\ UNCHANGED <<samples, processed_samples, items, ranked_colors, tokens, pc, render_vars,
                   colors, css_variables, add_log, css, passes, links, link_i, fetched,
                   normalize_call, scraper_vars>>

NextCategorize == Categorize

SpecCategorize == InitFilter /\ [][NextCategorize]_vars

(* ---------------------------------------------------------------------- *)
(* ColorExtractor.extract_from_css_rule and WebpageAnalyzer._parse_css    *)
(* ---------------------------------------------------------------------- *)
\* A stylesheet is the sequence of its qualified rules, a rule a selector
\* and its declarations, a declaration a name and the tokens of its value.
MaxRules == 2
MaxPasses == 2

HashToken(value) == [type |-> "hash", value |-> value]

IdentToken(value) == [type |-> "ident", value |-> value]

FunctionToken(name, arguments) == [type |-> "function", name |-> name, arguments |-> arguments]

Declaration(name, value) == [name |-> name, value |-> value]

\* The first token of a type, or <<>>.
FirstToken(value_tokens, types) ==
    IF \E k \in 1..Len(value_tokens) : value_tokens[k].type \in types
    THEN <<value_tokens[CHOOSE k \in 1..Len(value_tokens) :
                    /\ value_tokens[k].type \in types
                    /\ \A j \in 1..(k - 1) : value_tokens[j].type \notin types]>>
    ELSE <<>>

\* The first colour of a value made of whole tokens: a hex literal of 3 to 6
\* digits before a named colour.
_extract_color_from_value(value_tokens) ==
    IF FirstToken(value_tokens, {"hash"}) # <<>>
    THEN <<"#">> \o SubSeq(FirstToken(value_tokens, {"hash"})[1].value, 1,
                           IF Len(FirstToken(value_tokens, {"hash"})[1].value) < 6
                           THEN Len(FirstToken(value_tokens, {"hash"})[1].value) ELSE 6)
    ELSE IF FirstToken(value_tokens, {"ident"}) # <<>>
              /\ IsNamedColor(Lower(FirstToken(value_tokens, {"ident"})[1].value))
         THEN Lower(FirstToken(value_tokens, {"ident"})[1].value)
    ELSE None

\* serialize(token.arguments).split(',')[0].strip()
VarName(arguments) ==
    Strip(SubSeq(arguments, 1,
                 IF \E k \in 1..Len(arguments) : arguments[k] = ","
                 THEN (CHOOSE k \in 1..Len(arguments) :
                         arguments[k] = "," /\ \A j \in 1..(k - 1) : arguments[j] # ",") - 1
                 ELSE Len(arguments)))

TokenColorsMut(token, variables) ==
    IF token.type = "hash" THEN <<<<"#">> \o token.value>>
    ELSE IF token.type = "function" /\ token.name = "var" THEN <<<<"#", "0", "0", "0">>>>
    ELSE <<>>

\* The colours one token contributes.
TokenColors(token, variables) ==
    IF token.type = "hash" THEN <<<<"#">> \o token.value>>
    ELSE IF token.type = "function"
         THEN (IF token.name \in {"rgb", "rgba", "hsl", "hsla"}
               THEN <<token.name \o <<"(">> \o token.arguments \o <<")">>>>
               ELSE IF token.name = "var" /\ VarName(token.arguments) \in DOMAIN variables
                    THEN <<variables[VarName(token.arguments)]>>
               ELSE <<>>)
    ELSE IF token.type = "ident" /\ IsNamedColor(Lower(token.value)) THEN <<token.value>>
    ELSE <<>>

RECURSIVE _extract_colors_from_tokens(_, _)
_extract_colors_from_tokens(value_tokens, variables) ==
    IF value_tokens = <<>> THEN <<>>
    ELSE TokenColors(Head(value_tokens), variables)
           \o _extract_colors_from_tokens(Tail(value_tokens), variables)

\* css_variables[prop_name] = color, for a custom property with a colour.
DefineVariable(variables, declaration) ==
    IF StartsWith(declaration.name, <<"-", "-">>)
         /\ Truthy(_extract_color_from_value(declaration.value))
    THEN [n \in DOMAIN variables \cup {declaration.name} |->
            IF n = declaration.name THEN _extract_color_from_value(declaration.value)
            ELSE variables[n]]
    ELSE variables

\* The loop over the colours of one declaration: st holds colors,
\* css_variables and add_log; at is the place of the declaration.
RECURSIVE AddColors(_, _, _, _, _)
AddColors(st, found, selector, prop_name, at) ==
    IF found = <<>> THEN st
    ELSE IF ~Truthy(normalize_color(Head(found)))
         THEN AddColors(st, Tail(found), selector, prop_name, at)
    ELSE AddColors([st EXCEPT
                      !.colors = _add_color(st.colors, Head(found),
                                            normalize_color(Head(found)), selector, prop_name),
                      !.add_log = Append(st.add_log,
                                         [original |-> Head(found),
                                          normalized |-> normalize_color(Head(found)),
                                          selector |-> selector,
                                          property_name |-> prop_name,
                                          at |-> at])],
                   Tail(found), selector, prop_name, at)

\* One declaration: the definition of a custom property first, then the
\* colours of the value, looked up in the table as it then is.
ExtractDeclaration(st, selector, declaration, at) ==
    CHOOSE r \in {AddColors([st EXCEPT !.css_variables = variables],
                            _extract_colors_from_tokens(declaration.value, variables),
                            selector, declaration.name, at) :
                    variables \in {DefineVariable(st.css_variables, declaration)}} : TRUE

RECURSIVE ExtractDeclarations(_, _, _, _, _)
ExtractDeclarations(st, rule, pass, r, d) ==
    IF d > Len(rule.declarations) THEN st
    ELSE CHOOSE x \in {ExtractDeclarations(st2, rule, pass, r, d + 1) :
                         st2 \in {ExtractDeclaration(st, rule.selector, rule.declarations[d],
                                                     <<pass, r, d>>)}} : TRUE

\* for rule in rules: extract_from_css_rule(rule, self.css_variables)
RECURSIVE ParseRules(_, _, _, _)
ParseRules(st, rules, pass, r) ==
    IF r > Len(rules) THEN st
    ELSE CHOOSE x \in {ParseRules(st2, rules, pass, r + 1) :
                         st2 \in {ExtractDeclarations(st, rules[r], pass, r, 1)}} : TRUE

_parse_css(st, css_content, pass) ==
    IF css_content = <<>> THEN st ELSE ParseRules(st, css_content, pass, 1)

\* The declarations of the stylesheets: a custom property with a hex or a
\* named colour, a use of it, and a plain colour.
Brand == <<"-", "-", "b", "r", "a", "n", "d">>

DefineBrandHex == Declaration(Brand, <<HashToken(<<"f", "0", "0">>)>>)

DefineBrandNamed == Declaration(Brand, <<IdentToken(<<"b", "l", "u", "e">>)>>)

UseBrand == Declaration(<<"c", "o", "l", "o", "r">>, <<FunctionToken("var", Brand)>>)

PlainHex == Declaration(<<"b", "a", "c", "k", "g", "r", "o", "u", "n", "d">>, <<HashToken(<<"0", "0", "f">>)>>)

CssRules ==
    {[selector |-> sel, declarations |-> <<decl>>] :
        sel \in {".a", ".b"},
        decl \in {DefineBrandHex, DefineBrandNamed, UseBrand, PlainHex}}
    \cup {[selector |-> ".c", declarations |-> <<UseBrand, DefineBrandHex>>],
          [selector |-> ".c", declarations |-> <<DefineBrandHex, UseBrand>>]}

InitExtract ==
    /\ samples = <<>>
    /\ processed_samples = <<>>
    /\ items = <<>>
    /\ ranked_colors = <<>>
    /\ tokens = NoTokens
    /\ pc = "collect"
    /\ InitRender
    /\ colors = NoColors
    /\ css_variables = NoColors
    /\ add_log = <<>>
    /\ css \in SeqsUpTo(CssRules, MaxRules)
    /\ passes = 0
    /\ links = <<>>
    /\ link_i = 1
    /\ fetched = <<>>
    /\ category_call = <<>>
    /\ normalize_call = <<>>
    /\ InitScraper

\* self._parse_css(css): one pass over the stylesheet.
ParseCss ==
    /\ pc = "collect"
    /\ passes < MaxPasses
    /\ passes' = passes + 1
    /\ \E st \in {_parse_css([colors |-> colors, css_variables |-> css_variables,
                              add_log |-> add_log], css, passes + 1)} :
         /\ colors' = st.colors
         /\ css_variables' = st.css_variables
         /\ add_log' = st.add_log
    /\ UNCHANGED <<samples, processed_samples, items, ranked_colors, tokens, pc, render_vars,
                   css, links, link_i, fetched, category_call, normalize_call, scraper_vars>>

NextExtract == ParseCss

SpecExtract == InitExtract /\ [][NextExtract]_vars

(* ---------------------------------------------------------------------- *)
(* WebpageAnalyzer.analyze without Playwright: the linked stylesheets     *)
(* ---------------------------------------------------------------------- *)
MaxLinks == 2

\* self.url, as urlparse splits it.
PageUrl == [scheme |-> "https", netloc |-> "example.com"]

\* urljoin(base, href) for a path, a //host/path, a URL of a scheme without
\* a network location (tel:, javascript:, mailto:), a #fragment and a full
\* URL.
urljoin(base, href) ==
    IF href.kind = "path"
    THEN [scheme |-> base.scheme, netloc |-> base.netloc, path |-> href.path]
    ELSE IF href.kind = "host"
         THEN [scheme |-> base.scheme, netloc |-> href.netloc, path |-> href.path]
    ELSE IF href.kind = "opaque"
         THEN [scheme |-> href.scheme, netloc |-> "", path |-> href.path]
    ELSE IF href.kind = "fragment"
         THEN [scheme |-> base.scheme, netloc |-> base.netloc, path |-> base.path,
               fragment |-> href.fragment]
    ELSE [scheme |-> href.scheme, netloc |-> href.netloc, path |-> href.path]

SheetA == <<[selector |-> ".a", declarations |-> <<PlainHex>>]>>

SheetB == <<[selector |-> ".b", declarations |-> <<DefineBrandHex>>],
            [selector |-> ".b", declarations |-> <<UseBrand>>]>>

\* hrefs on the page's host, with either scheme, and on another host.
LocalHrefs ==
    {[kind |-> "path", path |-> "/a.css"],
     [kind |-> "full", scheme |-> "https", netloc |-> "example.com", path |-> "/b.css"],
     [kind |-> "full", scheme |-> "http", netloc |-> "example.com", path |-> "/c.css"]}

ForeignHrefs ==
    {[kind |-> "host", netloc |-> "cdn.example.net", path |-> "/d.css"],
     [kind |-> "full", scheme |-> "https", netloc |-> "cdn.example.net", path |-> "/e.css"]}

\* A link of the page: its href, what requesting it does (ok, fetch_error,
\* parse_error) and the stylesheet it serves.
StylesheetLinks ==
    {[href |-> h, outcome |-> o, sheet |-> sh] :
        h \in LocalHrefs, o \in {"ok", "fetch_error", "parse_error"}, sh \in {SheetA, SheetB}}
    \cup {[href |-> h, outcome |-> "ok", sheet |-> SheetA] : h \in ForeignHrefs}

InitLinks ==
    /\ samples = <<>>
    /\ processed_samples = <<>>
    /\ items = <<>>
    /\ ranked_colors = <<>>
    /\ tokens = NoTokens
    /\ pc = "links"
    /\ InitRender
    /\ colors = NoColors
    /\ css_variables = NoColors
    /\ add_log = <<>>
    /\ css = <<>>
    /\ passes = 0
    /\ links \in SeqsUpTo(StylesheetLinks, MaxLinks)
    /\ link_i = 1
    /\ fetched = <<>>
    /\ category_call = <<>>
    /\ normalize_call = <<>>
    /\ InitScraper

\* The extractor after the stylesheet of a link: all of it, or the rules
\* before the one on which parsing raised.
AfterSheet(st, link, pass, parsed) ==
    IF link.outcome = "fetch_error" THEN st
    ELSE _parse_css(st, SubSeq(link.sheet, 1, parsed), pass)

\* The loop of analyze after a link whose handling raised or did not.
NextLinkMut(i, n, raised) == IF raised THEN n + 1 ELSE i + 1

NextLink(i, n, raised) == i + 1

\* self._fetch_and_parse_css(href) for the link at link_i.
FetchAndParseCss ==
    /\ pc = "links"
    /\ link_i <= Len(links)
    /\ \E link \in {links[link_i]} :
         \E css_url \in {urljoin(PageUrl, link.href)} :
           IF css_url.netloc # PageUrl.netloc
           THEN /\ link_i' = NextLink(link_i, Len(links), FALSE)
                /\ UNCHANGED <<colors, css_variables, add_log, fetched>>
           ELSE /\ fetched' = Append(fetched, css_url)
                /\ link_i' = NextLink(link_i, Len(links), link.outcome # "ok")
                /\ \E parsed \in IF link.outcome = "parse_error"
                                 THEN 0..(Len(link.sheet) - 1) ELSE {Len(link.sheet)} :
                     \E st \in {AfterSheet([colors |-> colors,
                                            css_variables |-> css_variables,
                                            add_log |-> add_log], link, link_i, parsed)} :
                       /\ colors' = st.colors
                       /\ css_variables' = st.css_variables
                       /\ add_log' = st.add_log
    /\ UNCHANGED <<samples, processed_samples, items, ranked_colors, tokens, pc, render_vars,
                   css, passes, links, category_call, normalize_call, scraper_vars>>

\* return AnalysisResult(url=self.url, colors=dict(self.color_extractor.colors), ...)
StaticReturn ==
    /\ pc = "links"
    /\ link_i > Len(links)
    /\ result' = [kind |-> "AnalysisResult", colors |-> colors,
                  css_variables |-> css_variables]
    /\ pc' = "done"
    /\ UNCHANGED <<samples, processed_samples, items, ranked_colors, tokens, playwright,
                   browser, backend_calls, outcome, static_vars, normalize_call, scraper_vars>>

NextLinks == FetchAndParseCss \/ StaticReturn

SpecLinks == InitLinks /\ [][NextLinks]_vars

(* ---------------------------------------------------------------------- *)
(* ColorNormalizer.normalize_color applied to one string                  *)
(* ---------------------------------------------------------------------- *)
\* str(n) for n >= 0.
RECURSIVE DecimalOf(_)
DecimalOf(n) ==
    IF n < 10 THEN <<HexDigits[n + 1]>>
    ELSE DecimalOf(n \div 10) \o <<HexDigits[(n % 10) + 1]>>

\* 'hsl(h, s%, l%)'
HslRaw(h, sat, l) ==
    <<"h", "s", "l", "(">> \o DecimalOf(h) \o <<",", " ">> \o DecimalOf(sat)
      \o <<"%", ",", " ">> \o DecimalOf(l) \o <<"%", ")">>

Hues == {0, 30, 59, 60, 120, 180, 210, 240, 300, 359}

Percentages == {0, 25, 50, 75, 100}

\* '#'-prefixed strings: 3, 6, 4 and 8 hex digits, and ones that are no hex
\* colour.
HexInputs ==
    {<<"#", "f", "f", "f">>,
    <<"#", "F", "0", "0">>,
    <<"#", "f", "f", "0", "0", "0", "0">>,
    <<"#", "f", "0", "0", "f">>,
    <<"#", "f", "0", "0", "8">>,
    <<"#", "f", "f", "0", "0", "0", "0", "f", "f">>,
    <<"#", "f", "f", "0", "0", "0", "0", "8", "0">>}

MalformedHexInputs ==
    {<<"#">>,
    <<"#", "z", "z">>,
    <<"#", "x", "y", "z">>,
    <<"#", "1", "2", "3", "4", "5">>,
    <<"#", "g", "g", "g">>}

OtherInputs ==
    {<<>>,
    <<"n", "o", "t", "-", "a", "-", "c", "o", "l", "o", "r">>,
    <<"i", "n", "v", "a", "l", "i", "d">>,
    <<"r", "g", "b", "(">>,
    <<"r", "e", "d">>,
    <<"W", "h", "i", "t", "e">>,
    <<" ", "b", "l", "u", "e", " ">>,
    <<"r", "g", "b", "(", "2", "5", "5", ",", " ", "0", ",", " ", "0", ")">>,
    <<"r", "g", "b", "a", "(", "0", ",", " ", "0", ",", " ", "0", ",", " ", "0", ".", "5", ")">>,
    <<"r", "g", "b", "(", "2", "5", "6", ",", " ", "0", ",", " ", "3", "0", "0", ")">>,
    <<"r", "g", "b", "(", "0", ",", "0", ")">>,
    <<"h", "s", "l", "a", "(", "1", "2", "0", ",", " ", "1", "0", "0", "%", ",", " ", "2", "5", "%", ",", " ", "0", ".", "5", ")">>}

NormalizeInputs ==
    HexInputs \cup MalformedHexInputs \cup OtherInputs
    \cup {HslRaw(h, sat, l) : h \in Hues, sat \in Percentages, l \in Percentages}

\* ColorNormalizer.normalize_color(color_str)
NormalizeColor ==
    /\ pc = "collect"
    /\ normalize_call = <<>>
    /\ \E raw \in NormalizeInputs :
         normalize_call' = [raw |-> raw, normalized |-> normalize_color(raw)]
    /\ UNCHANGED <<samples, processed_samples, items, ranked_colors, tokens, pc, render_vars,
                   static_vars, scraper_vars>>

NextNormalize == NormalizeColor

SpecNormalize == InitFilter /\ [][NextNormalize]_vars

(* ---------------------------------------------------------------------- *)
(* WebsiteScraper: crawl over the pages of a site                         *)
(* ---------------------------------------------------------------------- *)
MaxPagesBound == 3

MaxHrefs == 2

\* self.base_url
BaseUrl == [scheme |-> "https", netloc |-> "example.com", path |-> "/"]

\* self.domain = urlparse(base_url).netloc
domain == BaseUrl.netloc

is_valid_url(url) == url.netloc = domain \/ url.netloc = ""

\* The href values of the <a> elements of a page: '/a', '/b', '/', '',
\* '#top', 'mailto:info@example.com', 'tel:+123', 'javascript:void(0)' and
\* 'https://other.net/x'.
PageHrefs ==
    {[kind |-> "path", path |-> "/a"],
     [kind |-> "path", path |-> "/b"],
     [kind |-> "path", path |-> "/"],
     [kind |-> "empty"],
     [kind |-> "fragment", fragment |-> "top"],
     [kind |-> "opaque", scheme |-> "mailto", path |-> "info@example.com"],
     [kind |-> "opaque", scheme |-> "tel", path |-> "+123"],
     [kind |-> "opaque", scheme |-> "javascript", path |-> "void(0)"],
     [kind |-> "full", scheme |-> "https", netloc |-> "other.net", path |-> "/x"]}

\* not href or href.startswith('mailto') or href == '/'
SkippedHref(href) ==
    \/ href.kind = "empty"
    \/ href.kind = "opaque" /\ href.scheme = "mailto"
    \/ href.kind = "path" /\ href.path = "/"

\* absolute_url.split('#')[0]
WithoutFragment(url) == [scheme |-> url.scheme, netloc |-> url.netloc, path |-> url.path]

\* The loop of scrape_page over the <a> elements.
RECURSIVE PageLinks(_, _, _)
PageLinks(url, hrefs, visited) ==
    IF hrefs = <<>> THEN <<>>
    ELSE IF SkippedHref(Head(hrefs)) THEN PageLinks(url, Tail(hrefs), visited)
    ELSE (IF \E absolute_url \in {WithoutFragment(urljoin(url, Head(hrefs)))} :
                is_valid_url(absolute_url) /\ absolute_url \notin visited
          THEN <<WithoutFragment(urljoin(url, Head(hrefs)))>>
          ELSE <<>>) \o PageLinks(url, Tail(hrefs), visited)

\* What requesting a URL does: the request raises, the response is not HTML,
\* or it is HTML with a text (possibly empty) and <a> elements.
FailingPages ==
    {[outcome |-> o, text |-> <<>>, hrefs |-> <<>>] : o \in {"raises", "not_html"}}

HtmlPages ==
    {[outcome |-> "ok", text |-> t, hrefs |-> hs] :
        t \in {<<>>, <<"h", "i">>}, hs \in SeqsUpTo(PageHrefs, MaxHrefs)}

\* requests has no connection adapter for a URL without a network location.
PagesAt(url) ==
    IF url.netloc = "" THEN {p \in FailingPages : p.outcome = "raises"}
    ELSE FailingPages \cup HtmlPages

\* scrape_page(url): the pair (text, links), with what the request did.
scrape_page(url, page, visited) ==
    IF page.outcome # "ok" THEN [outcome |-> page.outcome, text |-> None, links |-> <<>>]
    ELSE [outcome |-> "ok", text |-> page.text,
          links |-> PageLinks(url, page.hrefs, visited)]

\* The URLs a crawl from BaseUrl can queue.
CrawlUrls ==
    {BaseUrl}
    \cup {url \in {WithoutFragment(urljoin(BaseUrl, href)) :
                     href \in {h \in PageHrefs : ~SkippedHref(h)}} : is_valid_url(url)}

\* What scrape_page can return for a URL and a value of visited_urls, over
\* the pages the URL may serve: a table from <<url, visited>> to the results.
RECURSIVE ResultsOver(_)
ResultsOver(keys) ==
    IF keys = {} THEN <<>>
    ELSE LET key == CHOOSE k \in keys : TRUE
         IN  (key :> {scrape_page(key[1], page, key[2]) : page \in PagesAt(key[1])})
               @@ ResultsOver(keys \ {key})

ScrapeResults ==
    ResultsOver({key \in CrawlUrls \X SUBSET CrawlUrls : key[1] \in key[2]})

\* while urls_to_visit and len(self.visited_urls) < self.max_pages
LoopGoesOnMut(queue, visited, limit) == queue # <<>> /\ Cardinality(visited) <= limit

LoopGoesOn(queue, visited, limit) == queue # <<>> /\ Cardinality(visited) < limit

\* if url in self.visited_urls: continue
AlreadyVisitedMut(url, visited) == FALSE

AlreadyVisited(url, visited) == url \in visited

\* scrape_page catches every exception, so the loop of crawl goes on.
PcAfterScrapeMut(scrape) == IF scrape.outcome = "raises" THEN "aborted" ELSE "crawl"

PcAfterScrape(scrape) == "crawl"

\* WebsiteScraper(base_url, max_pages)
InitCrawl ==
    /\ samples = <<>>
    /\ processed_samples = <<>>
    /\ items = <<>>
    /\ ranked_colors = <<>>
    /\ tokens = NoTokens
    /\ pc = "init"
    /\ InitRender
    /\ colors = NoColors
    /\ css_variables = NoColors
    /\ add_log = <<>>
    /\ css = <<>>
    /\ passes = 0
    /\ links = <<>>
    /\ link_i = 1
    /\ fetched = <<>>
    /\ category_call = <<>>
    /\ normalize_call = <<>>
    /\ max_pages \in 0..MaxPagesBound
    /\ urls_to_visit = <<>>
    /\ visited_urls = {}
    /\ pages_content = <<>>
    /\ scraped = <<>>

\* urls_to_visit = [self.base_url]
CrawlStart ==
    /\ pc = "init"
    /\ urls_to_visit' = <<BaseUrl>>
    /\ pc' = "crawl"
    /\ UNCHANGED <<samples, processed_samples, items, ranked_colors, tokens, render_vars,
                   static_vars, normalize_call, max_pages, visited_urls, pages_content,
                   scraped>>

\* One iteration of the loop for a URL that was visited already.
CrawlSkip ==
    /\ pc = "crawl"
    /\ LoopGoesOn(urls_to_visit, visited_urls, max_pages)
    /\ AlreadyVisited(Head(urls_to_visit), visited_urls)
    /\ urls_to_visit' = Tail(urls_to_visit)
    /\ UNCHANGED <<samples, processed_samples, items, ranked_colors, tokens, pc, render_vars,
                   static_vars, normalize_call, max_pages, visited_urls, pages_content,
                   scraped>>

\* One iteration of the loop for a new URL: it is marked visited, scraped,
\* kept when it has a text, and its links are queued.
CrawlScrape ==
    /\ pc = "crawl"
    /\ LoopGoesOn(urls_to_visit, visited_urls, max_pages)
    /\ ~AlreadyVisited(Head(urls_to_visit), visited_urls)
    /\ \E url \in {Head(urls_to_visit)} :
         \E r \in ScrapeResults[<<url, visited_urls \cup {url}>>] :
             /\ visited_urls' = visited_urls \cup {url}
             /\ scraped' = Append(scraped, [url |-> url, outcome |-> r.outcome])
             /\ pages_content' = IF Truthy(r.text)
                                 THEN Append(pages_content, [url |-> url, text |-> r.text])
                                 ELSE pages_content
             /\ urls_to_visit' = Tail(urls_to_visit)
                                   \o SelectSeq(r.links,
                                                LAMBDA link : link \notin visited_urls \cup {url})
             /\ pc' = PcAfterScrape(r)
    /\ UNCHANGED <<samples, processed_samples, items, ranked_colors, tokens, render_vars,
                   static_vars, normalize_call, max_pages>>

\* return self.pages_content
CrawlReturn ==
    /\ pc = "crawl"
    /\ ~LoopGoesOn(urls_to_visit, visited_urls, max_pages)
    /\ pc' = "done"
    /\ UNCHANGED <<samples, processed_samples, items, ranked_colors, tokens, render_vars,
                   static_vars, normalize_call, scraper_vars>>

NextCrawl == CrawlStart \/ CrawlSkip \/ CrawlScrape \/ CrawlReturn

SpecCrawl == InitCrawl /\ [][NextCrawl]_vars

\* The loop is the only thread of the program: it keeps running until it
\* returns.
SpecCrawlFair == SpecCrawl /\ WF_vars(NextCrawl)

(* ---------------------------------------------------------------------- *)
(* Properties of the ranker                                               *)
(* ---------------------------------------------------------------------- *)
GroupIndices(its, role, color) ==
    {i \in 1..Len(its) : its[i].role = role /\ its[i].color = color}

RECURSIVE SumAreaOver(_, _)
SumAreaOver(its, idx) ==
    IF idx = {} THEN 0
    ELSE LET i == CHOOSE j \in idx : TRUE IN
         its[i].area + SumAreaOver(its, idx \ {i})

FirstSeen(its, role, color) ==
    CHOOSE i \in GroupIndices(its, role, color) :
        \A j \in GroupIndices(its, role, color) : i <= j

\* C1: the ranker yields exactly one entry per distinct (role, color) pair of
\* the contribution list; its occurrence_count is the number of contributions
\* of the pair, its area_sum the sum of their areas, and its score the product
\* of area_sum and occurrence_count.
C1_OneEntryPerGroup ==
    pc = "done" =>
      /\ DOMAIN ranked_colors = {items[i].role : i \in 1..Len(items)}
      /\ \A role \in DOMAIN ranked_colors :
           LET r == ranked_colors[role] IN
           /\ \A i, j \in 1..Len(r) : r[i].color = r[j].color => i = j
           /\ {r[i].color : i \in 1..Len(r)}
                = {items[i].color : i \in {k \in 1..Len(items) : items[k].role = role}}
           /\ \A i \in 1..Len(r) :
                LET idx == GroupIndices(items, role, r[i].color) IN
                /\ r[i].occurrence_count = Cardinality(idx)
                /\ r[i].area_sum = SumAreaOver(items, idx)
                /\ r[i].score = SumAreaOver(items, idx) * Cardinality(idx)

C1_Witness ==
    /\ pc = "done"
    /\ \E role \in DOMAIN ranked_colors :
         /\ Len(ranked_colors[role]) >= 2
         /\ \E i \in 1..Len(ranked_colors[role]) :
              /\ ranked_colors[role][i].occurrence_count >= 2
              /\ ranked_colors[role][i].area_sum >= 3

\* C2: each role's ranked list is in non-increasing score order, and entries
\* of equal score keep the order in which their (role, color) group was first
\* encountered in the contribution list.
C2_SortedStable ==
    pc = "done" =>
      \A role \in DOMAIN ranked_colors :
        LET r == ranked_colors[role] IN
        \A i, j \in 1..Len(r) :
          i < j =>
            /\ r[i].score >= r[j].score
            /\ r[i].score = r[j].score =>
                 FirstSeen(items, role, r[i].color) < FirstSeen(items, role, r[j].color)

\* A tie between two entries, and a third entry the sort moved ahead of both.
C2_Witness ==
    /\ pc = "done"
    /\ \E role \in DOMAIN ranked_colors :
         LET r == ranked_colors[role] IN
         /\ Len(r) = 3
         /\ r[1].score > r[2].score
         /\ r[2].score = r[3].score
         /\ FirstSeen(items, role, r[1].color) > FirstSeen(items, role, r[2].color)

\* The contribution list of the example: one background contribution of #111
\* with area 100 and five of #222 with area 10 each.
IsRankingExample(its) ==
    /\ Len(its) = 6
    /\ Cardinality({i \in 1..6 : its[i].color = C111 /\ its[i].area = 100}) = 1
    /\ Cardinality({i \in 1..6 : its[i].color = C222 /\ its[i].area = 10}) = 5

ScoreOf(ranked, role, color) ==
    LET r == RankedGet(ranked, role)
        i == CHOOSE j \in 1..Len(r) : r[j].color = color
    IN  r[i].score

RankOf(ranked, role, color) ==
    LET r == RankedGet(ranked, role) IN
    CHOOSE j \in 1..Len(r) : r[j].color = color

\* C3 as stated: on the example the ranker gives #111 the score 100 and #222
\* the score 50, so #111 ranks above #222.
C3_ExampleAsStated ==
    (pc = "done" /\ IsRankingExample(items)) =>
      /\ ScoreOf(ranked_colors, "background", C111) = 100
      /\ ScoreOf(ranked_colors, "background", C222) = 50
      /\ RankOf(ranked_colors, "background", C111) < RankOf(ranked_colors, "background", C222)

\* C3 amended: on the example the ranker gives #111 the score 100 and #222
\* the score 250 (area_sum 50 times 5 occurrences), so #222 ranks above #111.
C3_ExampleScores ==
    (pc = "done" /\ IsRankingExample(items)) =>
      /\ ScoreOf(ranked_colors, "background", C111) = 100
      /\ ScoreOf(ranked_colors, "background", C222) = 250
      /\ RankOf(ranked_colors, "background", C222) < RankOf(ranked_colors, "background", C111)

C3_Witness ==
    /\ pc = "done"
    /\ IsRankingExample(items)
    /\ items[1].color = C111

(* ---------------------------------------------------------------------- *)
(* Properties of the token inferencer                                     *)
(* ---------------------------------------------------------------------- *)
\* The contributions of a role on the allowed element types.
Restricted(its, role, types) ==
    {i \in 1..Len(its) : its[i].role = role /\ its[i].type \in types}

ColorsOf(its, idx) == {its[i].color : i \in idx}

GroupOf(its, idx, color) == {i \in idx : its[i].color = color}

GroupScore(its, idx, color) ==
    SumAreaOver(its, GroupOf(its, idx, color)) * Cardinality(GroupOf(its, idx, color))

GroupFirst(its, idx, color) ==
    CHOOSE i \in GroupOf(its, idx, color) : \A j \in GroupOf(its, idx, color) : i <= j

\* The colour among cs that ranks first: highest score, earliest first
\* occurrence among equals; None when cs is empty.
TopRanked(its, idx, cs) ==
    IF cs = {} THEN None
    ELSE CHOOSE c \in cs :
           \A d \in cs \ {c} :
             \/ GroupScore(its, idx, c) > GroupScore(its, idx, d)
             \/ /\ GroupScore(its, idx, c) = GroupScore(its, idx, d)
                /\ GroupFirst(its, idx, c) < GroupFirst(its, idx, d)

TopOf(its, role, types) ==
    TopRanked(its, Restricted(its, role, types),
              ColorsOf(its, Restricted(its, role, types)))

\* The top-ranked colour once the colours of excluded are left out.
TopOfExcept(its, role, types, excluded) ==
    TopRanked(its, Restricted(its, role, types),
              ColorsOf(its, Restricted(its, role, types)) \ excluded)

\* C4: accent is the top-ranked background colour among button
\* contributions; without one it is the top-ranked text colour among link
\* contributions; without either it is absent.
C4_Accent ==
    pc = "done" =>
      tokens.accent =
        IF TopOf(items, "background", {"button"}) # None
        THEN TopOf(items, "background", {"button"})
        ELSE TopOf(items, "text", {"link"})

\* The fallback: no button background, two link text colours.
C4_Witness ==
    /\ pc = "done"
    /\ Restricted(items, "background", {"button"}) = {}
    /\ Cardinality(ColorsOf(items, Restricted(items, "text", {"link"}))) = 2
    /\ Restricted(items, "background", {"link"}) # {}
    /\ tokens.accent # None

\* C5: userBubbleBg is accent when accent is present and otherwise the
\* top-ranked text colour among link contributions (absent without one); it
\* is never taken from a link's background.
C5_UserBubbleBg ==
    pc = "done" =>
      tokens.userBubbleBg =
        IF tokens.accent # None THEN tokens.accent
        ELSE TopOf(items, "text", {"link"})

\* C6: userBubbleText is absent exactly when userBubbleBg is absent; otherwise
\* it is #ffffff when the luminance of userBubbleBg is below 0.5 and #000000
\* when it is 0.5 or above.
C6_UserBubbleText ==
    pc = "done" =>
      /\ tokens.userBubbleText = None <=> tokens.userBubbleBg = None
      /\ tokens.userBubbleBg # None =>
           /\ 2 * calculate_luminance(tokens.userBubbleBg) < LuminanceScale
                => tokens.userBubbleText = White
           /\ 2 * calculate_luminance(tokens.userBubbleBg) >= LuminanceScale
                => tokens.userBubbleText = Black

C6_Witness ==
    /\ pc = "done"
    /\ tokens.userBubbleBg = Grey188
    /\ tokens.userBubbleText = Black
    /\ \E i \in 1..Len(items) : items[i].color = Grey187

\* C7: textMuted is the entry at rank index 1 of the text ranking restricted
\* to heading and paragraph contributions; it is absent when that ranking has
\* fewer than two distinct colours, and when present it differs from
\* textPrimary.
C7_TextMuted ==
    pc = "done" =>
      LET hp == {"heading", "paragraph"}
          cs == ColorsOf(items, Restricted(items, "text", hp))
      IN  /\ tokens.textMuted =
               IF Cardinality(cs) < 2 THEN None
               ELSE TopOfExcept(items, "text", hp, {TopOf(items, "text", hp)})
          /\ tokens.textMuted # None => tokens.textMuted # tokens.textPrimary

\* Two heading colours, the later one ranked first.
C7_Witness ==
    /\ pc = "done"
    /\ tokens.textMuted # None
    /\ \E i \in 1..Len(items) :
         /\ items[i].role = "text" /\ items[i].type = "heading"
         /\ items[i].color = tokens.textMuted
         /\ \A j \in 1..Len(items) :
              (items[j].role = "text" /\ items[j].type = "heading"
                 /\ items[j].color = tokens.textPrimary) => i < j

\* C8: accentHover is the highest-scoring background colour among button
\* contributions that differs from accent; it is absent when there is none
\* (in particular when accent is absent or comes from the link text
\* fallback), and it never equals accent.
C8_AccentHover ==
    pc = "done" =>
      /\ tokens.accentHover =
           IF tokens.accent = None THEN None
           ELSE TopOfExcept(items, "background", {"button"}, {tokens.accent})
      /\ tokens.accentHover # None => tokens.accentHover # tokens.accent
      /\ Restricted(items, "background", {"button"}) = {} => tokens.accentHover = None

C8_Witness ==
    /\ pc = "done"
    /\ tokens.accentHover # None
    /\ Cardinality(Restricted(items, "background", {"button"})) = 3

(* ---------------------------------------------------------------------- *)
(* Properties of the sample filter                                        *)
(* ---------------------------------------------------------------------- *)
RoleItems(its, role) == {k \in 1..Len(its) : its[k].role = role}

\* The values C9 lists: empty or missing, a keyword, rgba() with alpha <= 0,
\* 4-digit hex with alpha nibble 0, 8-digit hex with alpha byte 00.
ListedAsRejected(raw) ==
    \/ raw = None
    \/ raw = <<>>
    \/ raw \in {<<"t", "r", "a", "n", "s", "p", "a", "r", "e", "n", "t">>, <<"n", "o", "n", "e">>, <<"i", "n", "i", "t", "i", "a", "l">>, <<"i", "n", "h", "e", "r", "i", "t">>, <<"u", "n", "s", "e", "t">>}
    \/ \E rgb \in RgbTriples, a \in ZeroAlphas, sep \in CommaSeparators :
         raw = RgbaRaw(rgb, a, sep)
    \/ Len(raw) = 5 /\ raw[1] = "#" /\ raw[5] = "0"
    \/ Len(raw) = 9 /\ raw[1] = "#" /\ raw[8] = "0" /\ raw[9] = "0"

\* C9: a computed colour that is empty or missing, a keyword
\* (transparent, none, initial, inherit, unset) or fully transparent is
\* rejected by _normalize_computed_color, so a sample with such a
\* backgroundColor (for example 'rgba(0,0,0,0)') yields no background
\* contribution.
C9_TransparentRejected ==
    pc = "done" =>
      /\ \A i \in 1..Len(samples) :
           ListedAsRejected(samples[i].backgroundColor)
             => _normalize_computed_color(samples[i].backgroundColor) = None
      /\ Cardinality(RoleItems(items, "background"))
           <= Cardinality({i \in 1..Len(samples) :
                             ~ListedAsRejected(samples[i].backgroundColor)})
      /\ \A k \in RoleItems(items, "background") :
           \E i \in 1..Len(samples) :
             /\ ~ListedAsRejected(samples[i].backgroundColor)
             /\ samples[i].area = items[k].area

\* A sample with backgroundColor 'rgba(0,0,0,0)' that survives on its text
\* colour alone.
C9_Witness ==
    /\ pc = "done"
    /\ \E i \in 1..Len(samples) :
         /\ samples[i].backgroundColor = TransparentRgba
         /\ samples[i].width = 1000
         /\ \E k \in RoleItems(items, "text") : items[k].area = samples[i].area
    /\ RoleItems(items, "background") = {}

\* A sample C10 is about: near-zero-size with every border edge below 1px.
DecorativeSample(sample) ==
    /\ sample.width <= One \/ sample.height <= One \/ sample.area <= One
    /\ {sample.borderTopWidth, sample.borderRightWidth,
        sample.borderBottomWidth, sample.borderLeftWidth} \subseteq {Px0, Px05}

\* C10: a near-zero-size sample (width <= 1 or height <= 1 or area <= 1)
\* without a border edge of width >= 1 yields neither a text nor a
\* background contribution, even when both colours are valid.
C10_DecorativeDropped ==
    pc = "done" =>
      \A role \in {"text", "background"} :
        /\ Cardinality(RoleItems(items, role))
             <= Cardinality({i \in 1..Len(samples) : ~DecorativeSample(samples[i])})
        /\ \A k \in RoleItems(items, role) :
             \E i \in 1..Len(samples) :
               ~DecorativeSample(samples[i]) /\ samples[i].area = items[k].area

\* The 0.5 x 0.5 sample with valid text and background colours and no border.
C10_Witness ==
    /\ pc = "done"
    /\ \E i \in 1..Len(samples) :
         /\ samples[i].width = 50 /\ samples[i].height = 50
         /\ samples[i].color = OpaqueBlack
         /\ samples[i].backgroundColor = OpaqueRed
         /\ samples[i].borderTopWidth = Px0
         /\ samples[i].borderLeftWidth = Px0
    /\ RoleItems(items, "text") = {}
    /\ RoleItems(items, "background") = {}

\* The samples the filter keeps: positive area and, after normalization and
\* the two nulling rules, a colour among text, background and border.
Qualifies(sample) ==
    /\ sample.area > 0
    /\ \E c \in {SampleColors(sample)} :
         c.color # None \/ c.background # None \/ c.border # None

QualifyingIndices == {i \in 1..Len(samples) : Qualifies(samples[i])}

\* The k-th sample, in input order, of those at the positions Q.
NthOf(Q, k) == samples[CHOOSE i \in Q : Cardinality({j \in Q : j < i}) = k - 1]

\* C11: every processed sample has area > 0 and a non-null colour among
\* text, background and border; the processed samples are exactly the
\* samples with area > 0 and a surviving colour, in input order, and every
\* contribution comes from one of them, so a sample with area <= 0 or with
\* all three colours null is in neither list.
C11_SurvivorsOnly ==
    pc = "done" =>
      \E Q \in {QualifyingIndices} :
        /\ \A k \in 1..Len(processed_samples) :
             /\ processed_samples[k].area > 0
             /\ \/ processed_samples[k].color # None
                \/ processed_samples[k].backgroundColor # None
                \/ processed_samples[k].borderColor # None
        /\ Len(processed_samples) = Cardinality(Q)
        /\ \A k \in 1..Len(processed_samples) :
             \E sample \in {NthOf(Q, k)} :
               /\ processed_samples[k].width = sample.width
               /\ processed_samples[k].height = sample.height
               /\ processed_samples[k].area = sample.area
        /\ Len(items) <= 3 * Cardinality(Q)
        /\ \A k \in 1..Len(items) :
             \E i \in Q : items[k].area = samples[i].area /\ items[k].type = samples[i].type

\* A 10 x 10 sample whose background and border are transparent and whose
\* text colour is missing: processed, it is in neither list.
C11_Witness ==
    /\ pc = "done"
    /\ \E i \in 1..Len(samples) :
         /\ samples[i].area = 10000
         /\ samples[i].color = None
         /\ samples[i].backgroundColor = TransparentRgba
         /\ samples[i].borderColor = TransparentRgba
    /\ QualifyingIndices = {}
    /\ processed_samples = <<>>
    /\ items = <<>>

(* ---------------------------------------------------------------------- *)
(* Properties of analyze on the rendering path                            *)
(* ---------------------------------------------------------------------- *)
\* C12: when the computed-style source returns an empty sequence of samples
\* without failing, analyze returns an empty AnalysisResult (no samples, no
\* ranked colours) and not None.
C12_EmptyIsValid ==
    (pc = "done" /\ outcome = "ok" /\ samples = <<>>) =>
      /\ result.kind = "AnalysisResult"
      /\ result.computed_samples = <<>>
      /\ \A role \in Roles : RankedGet(result.ranked_colors, role) = <<>>

\* C13: when the rendering backend fails, by timeout or by any other error,
\* analyze returns None and not a partial AnalysisResult, and the backend
\* has been invoked exactly once by the time analyze returns, never more.
C13_FailureIsNone ==
    /\ backend_calls <= 1
    /\ pc = "done" => backend_calls = 1
    /\ (pc = "done" /\ outcome \in {"timeout", "error"}) => result.kind = "None"

\* analyze has returned after a timeout that struck with the browser open.
C13_Witness ==
    /\ pc = "done"
    /\ outcome = "timeout"
    /\ browser = "closed"
    /\ backend_calls = 1
    /\ result.kind = "None"

CallsWith(normalized) == {k \in 1..Len(add_log) : add_log[k].normalized = normalized}

LastCallWith(normalized) ==
    CHOOSE k \in CallsWith(normalized) : \A j \in CallsWith(normalized) : j <= k

\* C19: after any sequence of _add_color calls there is a record for exactly
\* the normalized colours of the calls; its frequency is the number of calls
\* with that colour, its selectors and properties are those of these calls,
\* and its value is the raw colour of the latest of them.
C19_AddColorUpsert ==
    /\ DOMAIN colors = {add_log[k].normalized : k \in 1..Len(add_log)}
    /\ \A n \in DOMAIN colors :
         /\ colors[n].frequency = Cardinality(CallsWith(n))
         /\ colors[n].selectors = {add_log[k].selector : k \in CallsWith(n)}
         /\ colors[n].properties = {add_log[k].property_name : k \in CallsWith(n)}
         /\ colors[n].value = add_log[LastCallWith(n)].original
         /\ colors[n].normalized = n

\* '#F00' then '#ff0000' on another selector and property, then '#00f':
\* two records, the first with frequency 2 and both selectors.
C19_Witness ==
    /\ Len(add_log) = 3
    /\ add_log[1].original = <<"#", "F", "0", "0">>
    /\ add_log[2].original = <<"#", "f", "f", "0", "0", "0", "0">>
    /\ add_log[1].selector # add_log[2].selector
    /\ add_log[1].property_name # add_log[2].property_name
    /\ add_log[3].original = <<"#", "0", "0", "f">>
    /\ Cardinality(DOMAIN colors) = 2
    /\ colors[<<"#", "f", "f", "0", "0", "0", "0">>].frequency = 2

\* The keyword sets of the rules, as the claim names them.
HasWord(words, s) == \E w \in words : Contains(Lower(s), w)

SuccessWords == {<<"s", "u", "c", "c", "e", "s", "s">>, <<"p", "o", "s", "i", "t", "i", "v", "e">>, <<"g", "r", "e", "e", "n">>, <<"v", "a", "l", "i", "d">>}

ErrorWords == {<<"e", "r", "r", "o", "r">>, <<"d", "a", "n", "g", "e", "r">>, <<"r", "e", "d">>, <<"i", "n", "v", "a", "l", "i", "d">>, <<"a", "l", "e", "r", "t">>}

WarningWords == {<<"w", "a", "r", "n", "i", "n", "g">>, <<"c", "a", "u", "t", "i", "o", "n">>, <<"y", "e", "l", "l", "o", "w">>, <<"o", "r", "a", "n", "g", "e">>}

InfoWords == {<<"i", "n", "f", "o">>, <<"i", "n", "f", "o", "r", "m", "a", "t", "i", "o", "n">>, <<"b", "l", "u", "e">>, <<"n", "o", "t", "i", "c", "e">>}

InteractiveWords == {<<"b", "u", "t", "t", "o", "n">>, <<"b", "t", "n">>, <<"l", "i", "n", "k">>, <<"a", "n", "c", "h", "o", "r">>, <<"i", "n", "p", "u", "t">>, <<"f", "o", "c", "u", "s">>, <<"h", "o", "v", "e", "r">>, <<"a", "c", "t", "i", "v", "e">>}

BorderWords == {<<"b", "o", "r", "d", "e", "r">>, <<"o", "u", "t", "l", "i", "n", "e">>, <<"d", "i", "v", "i", "d", "e", "r">>, <<"s", "e", "p", "a", "r", "a", "t", "o", "r">>, <<"s", "t", "r", "o", "k", "e">>}

BackgroundWords == {<<"b", "a", "c", "k", "g", "r", "o", "u", "n", "d">>, <<"b", "g">>, <<"s", "u", "r", "f", "a", "c", "e">>, <<"c", "a", "r", "d">>, <<"m", "o", "d", "a", "l">>, <<"o", "v", "e", "r", "l", "a", "y">>, <<"s", "e", "c", "t", "i", "o", "n">>}

TextWords == {<<"t", "e", "x", "t">>, <<"c", "o", "l", "o", "r">>, <<"f", "o", "n", "t">>, <<"h", "e", "a", "d", "i", "n", "g">>, <<"p", "a", "r", "a", "g", "r", "a", "p", "h">>, <<"c", "a", "p", "t", "i", "o", "n">>, <<"l", "a", "b", "e", "l">>}

\* The rules in their fixed order: each with its outcome.
RuleChain(selector, property_name) ==
    <<[hit |-> HasWord(SuccessWords, selector), category |-> "semantic_success"],
      [hit |-> HasWord(ErrorWords, selector), category |-> "semantic_error"],
      [hit |-> HasWord(WarningWords, selector), category |-> "semantic_warning"],
      [hit |-> HasWord(InfoWords, selector), category |-> "semantic_info"],
      [hit |-> HasWord(InteractiveWords, selector), category |-> "interactive"],
      [hit |-> HasWord({<<"b", "o", "r", "d", "e", "r">>}, property_name) \/ HasWord(BorderWords, selector),
       category |-> "border"],
      [hit |-> HasWord({<<"b", "a", "c", "k", "g", "r", "o", "u", "n", "d">>}, property_name)
                 \/ HasWord(BackgroundWords, selector),
       category |-> "background"],
      [hit |-> Lower(property_name) = <<"c", "o", "l", "o", "r">> \/ HasWord(TextWords, selector),
       category |-> "text"],
      [hit |-> TRUE, category |-> "other"]>>

\* C20: categorize_color returns the outcome of the first rule that matches,
\* in the order semantic (success, error, warning, info), interactive,
\* border, background, text, other; matching is case-insensitive.
C20_FirstRuleWins ==
    category_call # <<>> =>
      \E chain \in {RuleChain(category_call.selector, category_call.property_name)} :
        \A k \in 1..Len(chain) :
          (chain[k].hit /\ \A j \in 1..(k - 1) : ~chain[j].hit)
            => category_call.category = chain[k].category

\* categorize('.error-message', 'color'): the text rule matches as well, the
\* semantic rule wins.
C20_Witness ==
    /\ category_call # <<>>
    /\ category_call.selector = <<".", "e", "r", "r", "o", "r", "-", "m", "e", "s", "s", "a", "g", "e">>
    /\ category_call.property_name = <<"c", "o", "l", "o", "r">>
    /\ category_call.category = "semantic_error"

\* The places <<r, d>> of the declarations of the stylesheet, in scan order.
Places ==
    UNION {{<<r, d>> : d \in 1..Len(css[r].declarations)} : r \in 1..Len(css)}

Earlier(a, b) == a[1] < b[1] \/ (a[1] = b[1] /\ a[2] < b[2])

DeclarationAt(pl) == css[pl[1]].declarations[pl[2]]

\* The custom properties a declaration refers to with var().
Referenced(declaration) ==
    {VarName(declaration.value[k].arguments) :
       k \in {j \in 1..Len(declaration.value) :
                declaration.value[j].type = "function" /\ declaration.value[j].name = "var"}}

\* A declaration whose value is a var() of a property that no declaration
\* before it in scan order defines.
UnresolvedUse(pl) ==
    /\ Referenced(DeclarationAt(pl)) # {}
    /\ \A name \in Referenced(DeclarationAt(pl)) :
         ~\E before \in Places : Earlier(before, pl) /\ DeclarationAt(before).name = name

RECURSIVE SumFrequency(_, _)
SumFrequency(cs, keys) ==
    IF keys = {} THEN 0
    ELSE cs[CHOOSE k \in keys : TRUE].frequency
           + SumFrequency(cs, keys \ {CHOOSE k \in keys : TRUE})

\* C17: in one pass over a stylesheet, a var() of a custom property that no
\* earlier declaration in scan order defines adds no colour for that use,
\* also when the property is defined later in the pass: no call of
\* _add_color is made for the declaration, and the frequencies count the
\* calls that were made and nothing else.
C17_UnresolvedVarNoColor ==
    passes = 1 =>
      /\ \A pl \in Places :
           UnresolvedUse(pl) =>
             ~\E k \in 1..Len(add_log) : add_log[k].at = <<1, pl[1], pl[2]>>
      /\ DOMAIN colors = {add_log[k].normalized : k \in 1..Len(add_log)}
      /\ SumFrequency(colors, DOMAIN colors) = Len(add_log)

\* One pass over  .c { color: var(--brand); --brand: #f00 }: the only colour
\* recorded is that of the definition.
C17_Witness ==
    /\ passes = 1
    /\ css = <<[selector |-> ".c", declarations |-> <<UseBrand, DefineBrandHex>>]>>
    /\ UnresolvedUse(<<1, 1>>)
    /\ Len(add_log) = 1
    /\ add_log[1].at = <<1, 1, 2>>
    /\ colors[<<"#", "f", "f", "0", "0", "0", "0">>].frequency = 1

\* The calls of _add_color of one pass for one normalized colour.
CallsInPass(normalized, pass) ==
    {k \in 1..Len(add_log) : add_log[k].normalized = normalized /\ add_log[k].at[1] = pass}

\* C18: after two passes over the same stylesheet on one analyzer, the
\* colour keys are those of the first pass and every record has twice the
\* frequency it had after the first pass.
C18_SecondPassDoubles ==
    passes = 2 =>
      /\ DOMAIN colors = {add_log[k].normalized :
                            k \in {j \in 1..Len(add_log) : add_log[j].at[1] = 1}}
      /\ \A n \in DOMAIN colors :
           colors[n].frequency = 2 * Cardinality(CallsInPass(n, 1))

(* ---------------------------------------------------------------------- *)
(* Properties of the static extraction over the linked stylesheets        *)
(* ---------------------------------------------------------------------- *)
\* The links whose resolved URL is on the page's host, by position.
OnPageHost == {i \in 1..Len(links) : urljoin(PageUrl, links[i].href).netloc = PageUrl.netloc}

\* The colours a stylesheet yields when parsed on its own.
SheetColors(sheet) ==
    DOMAIN _parse_css([colors |-> NoColors, css_variables |-> NoColors, add_log |-> <<>>],
                      sheet, 1).colors

\* C15: a stylesheet that fails to be fetched or parsed does not abort
\* analyze: every stylesheet on the page's host is requested, in document
\* order, the colours of each one that is fetched and parsed are in the
\* AnalysisResult that analyze returns, whatever failed before or after it.
C15_FailureSkipped ==
    pc = "done" =>
      /\ result.kind = "AnalysisResult"
      /\ Len(fetched) = Cardinality(OnPageHost)
      /\ \A k \in 1..Len(fetched) :
           \E i \in OnPageHost :
             /\ Cardinality({j \in OnPageHost : j < i}) = k - 1
             /\ fetched[k] = urljoin(PageUrl, links[i].href)
      /\ \A i \in OnPageHost :
           links[i].outcome = "ok" => SheetColors(links[i].sheet) \subseteq DOMAIN result.colors

\* The fetch of the first stylesheet fails; the second is still requested
\* and its colour is in the result.
C15_Witness ==
    /\ pc = "done"
    /\ Len(links) = 2
    /\ links[1].outcome = "fetch_error"
    /\ links[1].href.kind = "path"
    /\ links[2].outcome = "ok"
    /\ links[2].sheet = SheetA
    /\ links[2].href.kind = "full" /\ links[2].href.scheme = "https"
    /\ Len(fetched) = 2
    /\ result.kind = "AnalysisResult"
    /\ <<"#", "0", "0", "0", "0", "f", "f">> \in DOMAIN result.colors

\* C16: every stylesheet that is requested has the origin of the page, that
\* is its scheme and its host; one on the page's host but with another
\* scheme is not requested.
C16_SameOriginOnly ==
    \A k \in 1..Len(fetched) :
      fetched[k].scheme = PageUrl.scheme /\ fetched[k].netloc = PageUrl.netloc

(* ---------------------------------------------------------------------- *)
(* Properties of colour normalization                                     *)
(* ---------------------------------------------------------------------- *)
\* '#' followed by exactly six lowercase hex digits.
IsHex6(color) ==
    /\ Len(color) = 7
    /\ color[1] = "#"
    /\ \A k \in 2..7 : color[k] \in {HexDigits[j] : j \in 1..16}

\* C21: every colour that is a ColorRecord key, the colour of a contribution
\* or of a ranked entry, or a token that is not absent, is '#' followed by
\* exactly six lowercase hex digits.
C21_AllHex6 ==
    /\ \A n \in DOMAIN colors : IsHex6(n)
    /\ \A k \in 1..Len(items) : IsHex6(items[k].color)
    /\ \A role \in DOMAIN ranked_colors :
         \A k \in 1..Len(ranked_colors[role]) : IsHex6(ranked_colors[role][k].color)
    /\ \A t \in DOMAIN tokens : tokens[t] # None => IsHex6(tokens[t])

\* A hex colour of 4 or 8 digits without its alpha digits.
WithoutAlpha(raw) == IF Len(raw) = 5 THEN SubSeq(raw, 1, 4) ELSE SubSeq(raw, 1, 7)

\* C22: for a 4-digit or 8-digit hex colour normalize_color returns a
\* #rrggbb value, the one it returns for the colour without its alpha
\* digits.
C22_AlphaDropped ==
    (normalize_call # <<>> /\ normalize_call.raw \in HexInputs
       /\ Len(normalize_call.raw) \in {5, 9}) =>
      /\ IsHex6(normalize_call.normalized)
      /\ normalize_call.normalized = normalize_color(WithoutAlpha(normalize_call.raw))

\* The inputs that are no hex, named, rgb()/rgba() or hsl()/hsla() colour.
UnparseableInputs ==
    MalformedHexInputs
    \cup {<<>>,
          <<"n", "o", "t", "-", "a", "-", "c", "o", "l", "o", "r">>,
          <<"i", "n", "v", "a", "l", "i", "d">>,
          <<"r", "g", "b", "(">>,
          <<"r", "g", "b", "(", "0", ",", "0", ")">>}

\* C23: normalize_color returns None for every string that is not a
\* parseable colour: the empty string, 'not-a-color', a '#'-prefixed string
\* that is no valid hex.
C23_UnparseableIsNone ==
    (normalize_call # <<>> /\ normalize_call.raw \in UnparseableInputs) =>
      normalize_call.normalized = None

\* round(num / den) for num >= 0 and den > 0, a half rounding up.
RoundDiv(num, den) == (2 * num + den) \div (2 * den)

\* The standard conversion with each channel rounded: with c = cc / 10000,
\* x = cc * xf / 600000 and m = (200 * l - cc) / 20000, the channel of v is
\* round((v + m) * 255).
RoundedHsl(h, sat, l) ==
    LET cc == (100 - Abs(2 * l - 100)) * sat
        xf == 60 - Abs((h % 120) - 60)
        cv == 60 * cc
        xv == cc * xf
        mv == 30 * (200 * l - cc)
        ch(v) == RoundDiv((v + mv) * 255, 600000)
    IN  IF h < 60 THEN <<ch(cv), ch(xv), ch(0)>>
        ELSE IF h < 120 THEN <<ch(xv), ch(cv), ch(0)>>
        ELSE IF h < 180 THEN <<ch(0), ch(cv), ch(xv)>>
        ELSE IF h < 240 THEN <<ch(0), ch(xv), ch(cv)>>
        ELSE IF h < 300 THEN <<ch(xv), ch(0), ch(cv)>>
        ELSE <<ch(cv), ch(0), ch(xv)>>

\* C26: for hsl(h, s%, l%) with integer h in 0..359 and integer percentages
\* every channel normalize_color returns is round((channel + m) * 255), so a
\* channel of exactly 127.5 becomes 128.
C26_HslRounds ==
    normalize_call # <<>> =>
      \A h \in Hues, sat \in Percentages, l \in Percentages :
        normalize_call.raw = HslRaw(h, sat, l)
          => normalize_call.normalized = FormatHex(RoundedHsl(h, sat, l))

(* ---------------------------------------------------------------------- *)
(* Properties of custom-property declarations                             *)
(* ---------------------------------------------------------------------- *)
\* C24: a declaration whose property name starts with '--' only records its
\* colour in the CSS variable table: no call of _add_color is made for it,
\* so a stylesheet of such declarations alone leaves the ColorRecord
\* inventory as it was.
C24_CustomPropertyFrame ==
    /\ \A k \in 1..Len(add_log) :
         ~StartsWith(css[add_log[k].at[2]].declarations[add_log[k].at[3]].name, <<"-", "-">>)
    /\ (\A r \in 1..Len(css) : \A d \in 1..Len(css[r].declarations) :
          StartsWith(css[r].declarations[d].name, <<"-", "-">>))
         => colors = NoColors

(* ---------------------------------------------------------------------- *)
(* Properties of the border contribution                                  *)
(* ---------------------------------------------------------------------- *)
\* A sample with a border edge of at least 1px.
VisibleEdge(sample) ==
    Px1 \in {sample.borderTopWidth, sample.borderRightWidth,
             sample.borderBottomWidth, sample.borderLeftWidth}

\* A sample whose declared border colour is valid and not transparent.
ValidBorder(sample) == sample.borderColor \in {OpaqueBlack, OpaqueRed}

\* No border contribution comes from a sample without an edge of >= 1px.
InvisibleBorderDropped ==
    /\ Cardinality(RoleItems(items, "border"))
         <= Cardinality({i \in 1..Len(samples) : VisibleEdge(samples[i])})
    /\ \A k \in RoleItems(items, "border") :
         \E i \in 1..Len(samples) :
           VisibleEdge(samples[i]) /\ samples[i].area = items[k].area

\* C25: a sample none of whose four border edge widths is >= 1px yields no
\* border contribution whatever its declared border colour, and a sample of
\* positive area with at least one edge >= 1px and a valid non-transparent
\* border colour yields exactly one border contribution carrying its area.
C25_BorderRule ==
    pc = "done" =>
      /\ InvisibleBorderDropped
      /\ Cardinality(RoleItems(items, "border"))
           = Cardinality({i \in 1..Len(samples) :
                            /\ samples[i].area > 0
                            /\ VisibleEdge(samples[i])
                            /\ ValidBorder(samples[i])})
      /\ \A i \in 1..Len(samples) :
           (samples[i].area > 0 /\ VisibleEdge(samples[i]) /\ ValidBorder(samples[i]))
             => \E k \in RoleItems(items, "border") : items[k].area = samples[i].area

\* A 10 x 10 sample whose left edge alone is 1px wide, with a black border.
C25_Witness ==
    /\ pc = "done"
    /\ \E i \in 1..Len(samples) :
         /\ samples[i].area = 10000
         /\ samples[i].borderColor = OpaqueBlack
         /\ samples[i].borderTopWidth = Px0
         /\ samples[i].borderLeftWidth = Px1
    /\ \E k \in RoleItems(items, "border") : items[k].area = 10000

(* ---------------------------------------------------------------------- *)
(* Properties of crawl                                                    *)
(* ---------------------------------------------------------------------- *)
\* C27: during and after crawl the number of visited URLs never exceeds
\* max_pages: at most max_pages pages are fetched, and pages_content holds
\* at most max_pages entries, each for a distinct visited URL with a
\* non-empty text.
C27_PageLimit ==
    /\ Cardinality(visited_urls) <= max_pages
    /\ Len(scraped) <= max_pages
    /\ Len(pages_content) <= max_pages
    /\ \A k \in 1..Len(pages_content) :
         /\ pages_content[k].url \in visited_urls
         /\ pages_content[k].text # None
         /\ Len(pages_content[k].text) > 0
         /\ \A j \in 1..Len(pages_content) :
              pages_content[j].url = pages_content[k].url => j = k

\* The limit stops the crawl: max_pages pages were fetched and kept, and a
\* link is still queued.
C27_Witness ==
    /\ pc = "done"
    /\ max_pages >= 2
    /\ Cardinality(visited_urls) = max_pages
    /\ Len(pages_content) = max_pages
    /\ urls_to_visit # <<>>
    /\ Head(urls_to_visit) \notin visited_urls

\* C28: every URL passed to scrape_page has the network location of the
\* base URL, whatever links the pages hold, links of the schemes mailto:,
\* tel: and javascript: included.
C28_SameDomainOnly ==
    \A k \in 1..Len(scraped) : scraped[k].url.netloc = domain

\* C29: no URL is scraped more than once during one crawl: the URL scraped
\* is the head of the queue, it is not in visited_urls before and is in it
\* when it is fetched, even when the same link is queued several times.
C29_ScrapedOnce ==
    /\ [](/\ \A i, j \in 1..Len(scraped) : scraped[i].url = scraped[j].url => i = j
          /\ visited_urls = {scraped[k].url : k \in 1..Len(scraped)})
    /\ [][scraped' # scraped =>
            /\ Len(scraped') = Len(scraped) + 1
            /\ SubSeq(scraped', 1, Len(scraped)) = scraped
            /\ urls_to_visit # <<>>
            /\ scraped'[Len(scraped')].url = Head(urls_to_visit)
            /\ Head(urls_to_visit) \notin visited_urls
            /\ Head(urls_to_visit) \in visited_urls']_vars
    /\ [][(urls_to_visit' # urls_to_visit /\ pc = "crawl") =>
            /\ Len(urls_to_visit') >= Len(urls_to_visit) - 1
            /\ SubSeq(urls_to_visit', 1, Len(urls_to_visit) - 1) = Tail(urls_to_visit)]_vars

\* Two pages queued the link '/b': it was scraped once and its second entry
\* is at the head of the queue.
C29_Witness ==
    /\ Len(scraped) = 3
    /\ \A i, j \in 1..3 : scraped[i].url = scraped[j].url => i = j
    /\ urls_to_visit # <<>>
    /\ Head(urls_to_visit) = scraped[3].url

\* C30: crawl terminates whatever links the pages return, cycles and pages
\* that fail to load included: the loop exits because the queue is empty or
\* max_pages URLs were visited; a page whose fetch raises is in visited_urls,
\* is not kept in pages_content, and does not stop the crawl.
C30_CrawlTerminates ==
    /\ <>(pc = "done")
    /\ [](pc = "done" => (urls_to_visit = <<>> \/ Cardinality(visited_urls) >= max_pages))
    /\ [](\A k \in 1..Len(scraped) :
            scraped[k].outcome = "raises" =>
              /\ scraped[k].url \in visited_urls
              /\ \A j \in 1..Len(pages_content) : pages_content[j].url # scraped[k].url)

\* The second page raised and the crawl went on to a third one, which links
\* back to the first, and returned.
C30_Witness ==
    /\ pc = "done"
    /\ Len(scraped) = 3
    /\ scraped[2].outcome = "raises"
    /\ scraped[3].outcome = "ok"
    /\ Len(pages_content) = 2
    /\ pages_content[2].url = scraped[3].url
    /\ urls_to_visit = <<>>

====
